---- MODULE Spec2Model ----
(***************************************************************************)
(* A model of the sclang_format rewriting engine: the text buffer and its  *)
(* syntax tree (engine.rs), the edit application, the byte-level scanners  *)
(* of the rules and the rule pipeline (rules/mod.rs, lib.rs).              *)
(*                                                                         *)
(* The buffer is a sequence of one-byte strings.  Offsets are the source's *)
(* 0-based byte offsets; At(b, i) reads byte i.  All inputs are ASCII, so  *)
(* a byte offset is also a char offset of the rope.                        *)
(***************************************************************************)
EXTENDS Integers, Sequences, FiniteSets, TLC

VARIABLES
    text,    \* Ctx.rope: the current buffer content
    tree,    \* Ctx.tree: the text the current syntax tree was parsed from
    errs,    \* the byte range the parser flagged as an error subtree, or <<>>
    pc,      \* index (1-based) of the next rule of run_inline
    result,  \* outcome of the call: "idle", "running", "ok", "err", "panic"
    ran,     \* names of the rules run so far in this call, in order
    pre,     \* the buffer content the last edit batch was computed against
    batch,   \* the last edit batch handed to apply_edits, in list order
    pass,    \* 1 = first formatting call, 2 = call on the first call's output
    out1,    \* the text returned by the first call
    input,   \* src: the text handed to the current call
    phase,   \* the phase argument of the current call
    scan     \* position and state of a byte-level string/comment scanner

vars ==
    <<text, tree, errs, pc, result, ran, pre, batch, pass, out1, input, phase,
      scan>>

----------------------------------------------------------------------------
(* Bytes *)

X == "x"
SP == " "
TAB == "\t"
NL == "\n"
CR == "\r"
SL == "/"
ST == "*"
DQ == "\""
SQ == "'"
BS == "\\"

At(b, i) == b[i + 1]

Slice(b, s, e) == SubSeq(b, s + 1, e)

Front(s) == SubSeq(s, 1, Len(s) - 1)

Last(s) == s[Len(s)]

\* All sequences over S of length at most n.
SeqsUpTo(S, n) == UNION {[1..k -> S] : k \in 0..n}

Max(a, b) == IF a >= b THEN a ELSE b

----------------------------------------------------------------------------
(* engine.rs: TextEdit and Ctx::apply_edits *)

TextEdit(s, e, r) == [start_byte |-> s, end_byte |-> e, replacement |-> r]

NoTree == <<"no tree">>

\* edits.sort_by_key(|e| e.start_byte): a stable sort, equal keys keep their
\* list order.
RECURSIVE InsertByStart(_, _)
InsertByStart(sorted, e) ==
    IF sorted = <<>> THEN <<e>>
    ELSE IF Last(sorted).start_byte <= e.start_byte THEN Append(sorted, e)
    ELSE Append(InsertByStart(Front(sorted), e), Last(sorted))

RECURSIVE SortByStart(_)
SortByStart(edits) ==
    IF edits = <<>> THEN <<>>
    ELSE InsertByStart(SortByStart(Front(edits)), Last(edits))

\* The outcome of rope.byte_to_char / rope.remove / rope.insert for one edit:
\* ropey panics when an offset lies past the end of the rope or when the
\* range is reversed.
Panic == [ok |-> FALSE, text |-> <<>>]

Done(t) == [ok |-> TRUE, text |-> t]

SpliceOne(r, e) ==
    IF ~r.ok THEN r
    ELSE IF e.start_byte > Len(r.text) \/ e.end_byte > Len(r.text)
            \/ e.start_byte > e.end_byte
         THEN Panic
    ELSE Done(Slice(r.text, 0, e.start_byte) \o e.replacement
              \o Slice(r.text, e.end_byte, Len(r.text)))

\* for e in edits.into_iter().rev() { remove; insert }
RECURSIVE SpliceRev(_, _)
SpliceRev(r, sorted) ==
    IF sorted = <<>> THEN r
    ELSE SpliceRev(SpliceOne(r, Last(sorted)), Front(sorted))

\* The rope after the loop of apply_edits (before the reparse).
apply_edits(t, edits) == SpliceRev(Done(t), SortByStart(edits))

----------------------------------------------------------------------------
(* Byte classes and the bounded look-behind / look-ahead loops of the rules *)

\* fn is_space(b) -> b == b' ' || b == b'\t'
is_space == {SP, TAB}

\* fn is_newline(b) -> b == b'\n' || b == b'\r'
is_newline == {NL, CR}

\* u8::is_ascii_whitespace() && !is_newline(..), the run the spacing rules
\* collapse: space, tab and form feed.
inline_ws == {SP, TAB, "\f"}

\* while k > lo && bytes[k - 1] in S { k -= 1 }
RECURSIVE BackWhile(_, _, _, _)
BackWhile(b, k, lo, S) ==
    IF k > lo /\ At(b, k - 1) \in S THEN BackWhile(b, k - 1, lo, S) ELSE k

\* while k < hi && bytes[k] in S { k += 1 }
RECURSIVE FwdWhile(_, _, _, _)
FwdWhile(b, k, hi, S) ==
    IF k < hi /\ At(b, k) \in S THEN FwdWhile(b, k + 1, hi, S) ELSE k

\* while j < len && bytes[j] != b'\n' { j += 1 }
RECURSIVE LineEnd(_, _)
LineEnd(b, j) ==
    IF j < Len(b) /\ At(b, j) # NL THEN LineEnd(b, j + 1) ELSE j

\* while line_start > 0 && bytes[line_start - 1] != b'\n' { line_start -= 1 }
RECURSIVE LineStart(_, _)
LineStart(b, j) ==
    IF j > 0 /\ At(b, j - 1) # NL THEN LineStart(b, j - 1) ELSE j

\* fn is_escaped(bytes, i): the quote at i is preceded by an odd number of
\* consecutive backslashes.
RECURSIVE BackslashesBefore(_, _)
BackslashesBefore(b, i) ==
    IF i > 0 /\ At(b, i - 1) = BS THEN 1 + BackslashesBefore(b, i - 1) ELSE 0

is_escaped(b, i) == BackslashesBefore(b, i) % 2 = 1

----------------------------------------------------------------------------
(* The parser's view of strings and comments (external collaborator):      *)
(* a byte is inside a string or comment node iff the forward state machine *)
(* of the classifier contract is in a string/comment state on it.          *)

\* One token step of the classifier: s.i is the offset, s.st the state and
\* s.acc the classes of the bytes before s.i.
LexStep(b, s) ==
    IF s.i >= Len(b) THEN s
    ELSE LET c == At(b, s.i)
             i == s.i
             two(k) == i + 1 < Len(b) /\ At(b, i + 1) = k
             one(st, cls) == [i |-> i + 1, st |-> st, acc |-> Append(s.acc, cls)]
             pair(st, cls) == [i |-> i + 2, st |-> st, acc |-> s.acc \o <<cls, cls>>]
         IN CASE s.st = "line" ->
                   IF c = NL THEN one("code", "code") ELSE one("line", "line")
              [] s.st = "block" ->
                   IF c = ST /\ two(SL) THEN pair("code", "block")
                   ELSE one("block", "block")
              [] s.st = "single" ->
                   IF c = SQ /\ ~is_escaped(b, i) THEN one("code", "single")
                   ELSE one("single", "single")
              [] s.st = "double" ->
                   IF c = DQ /\ ~is_escaped(b, i) THEN one("code", "double")
                   ELSE one("double", "double")
              [] OTHER ->
                   IF c = SL /\ two(SL) THEN pair("line", "line")
                   ELSE IF c = SL /\ two(ST) THEN pair("block", "block")
                   ELSE IF c = SQ THEN one("single", "single")
                   ELSE IF c = DQ THEN one("double", "double")
                   ELSE one("code", "code")

\* k steps of the classifier, the first half and then the second half.
RECURSIVE LexFrom(_, _, _)
LexFrom(b, s, k) ==
    IF s.i >= Len(b) \/ k <= 0 THEN s
    ELSE IF k = 1 THEN LexStep(b, s)
    ELSE LexFrom(b, LexFrom(b, s, k \div 2), k - (k \div 2))

\* The class of every byte of b: "code", "line", "block", "single", "double".
Lex(b) == LexFrom(b, [i |-> 0, st |-> "code", acc |-> <<>>], Len(b)).acc

\* fn in_comment_or_string(root, byte): some ancestor of the smallest node
\* covering [byte, byte + 1) is of kind comment, block_comment, line_comment
\* or string.  tr is the text the
\* tree was parsed from.
in_comment_or_string(tr, byte) ==
    byte < Len(tr) /\ Lex(tr)[byte + 1] \in {"line", "block", "double"}

\* The byte range of the error subtree the parser flags, <<start, end>>, or
\* <<>>.  A closing parenthesis that closes nothing cannot be parsed; when
\* the code of the buffer consists of such bytes only, the parser skips them
\* all, and the error node spans from the first to the last of them.
Strays(b) == {i \in 0..(Len(b) - 1) : At(b, i) = ")" /\ Lex(b)[i + 1] = "code"}

ErrorRange(b) ==
    IF /\ Strays(b) # {}
       /\ \A i \in 0..(Len(b) - 1) :
              Lex(b)[i + 1] = "code" => At(b, i) \in {")", SP, TAB, NL}
    THEN <<CHOOSE i \in Strays(b) : \A j \in Strays(b) : i <= j,
           1 + CHOOSE i \in Strays(b) : \A j \in Strays(b) : i >= j>>
    ELSE <<>>

----------------------------------------------------------------------------
(* rules/trailing_ws.rs: TrimTrailingWhitespaceAndEofNewline *)

\* The per-line loop: for each line [i, j) delete its trailing spaces/tabs.
RECURSIVE TrimLines(_, _, _)
TrimLines(b, i, edits) ==
    IF i >= Len(b) THEN edits
    ELSE LET j == LineEnd(b, i)
             k == BackWhile(b, j, i, {SP, TAB})
             es == IF k < j THEN Append(edits, TextEdit(k, j, <<>>)) ELSE edits
         IN IF j = Len(b) THEN es ELSE TrimLines(b, j + 1, es)

\* "Ensure exactly one trailing newline".
EofNewline(b) ==
    IF b = <<>> THEN <<TextEdit(0, 0, <<NL>>)>>
    ELSE IF Len(b) >= 2 /\ At(b, Len(b) - 1) = NL /\ At(b, Len(b) - 2) = NL
    THEN <<TextEdit(BackWhile(b, Len(b) - 1, 0, {NL}), Len(b), <<NL>>)>>
    ELSE IF At(b, Len(b) - 1) # NL
    THEN <<TextEdit(Len(b), Len(b), <<NL>>)>>
    ELSE <<>>

TrimTrailingWhitespaceAndEofNewline(b) == TrimLines(b, 0, <<>>) \o EofNewline(b)

----------------------------------------------------------------------------
(* rules/indent_style.rs: IndentStyleRule *)

\* lib.rs format_source: IndentStyle::Spaces { width: 4 }
indent_style == [kind |-> "Spaces", width |-> 4]

Repeat(c, n) == [k \in 1..n |-> c]

\* cols: a tab counts one unit under Tabs and `width` columns under Spaces.
RECURSIVE IndentCols(_, _, _)
IndentCols(b, i, j) ==
    IF i >= j THEN 0
    ELSE (IF At(b, i) = TAB
          THEN (IF indent_style.kind = "Tabs" THEN 1 ELSE indent_style.width)
          ELSE IF At(b, i) = SP THEN 1 ELSE 0)
         + IndentCols(b, i + 1, j)

NewIndent(cols) ==
    IF indent_style.kind = "Tabs" THEN Repeat(TAB, cols)
    ELSE LET width == indent_style.width
             units == IF width = 0 THEN 0 ELSE cols \div width
             extra == IF width = 0 THEN cols ELSE cols % width
         IN Repeat(SP, units * width + extra)

RECURSIVE IndentLines(_, _, _)
IndentLines(b, i, edits) ==
    IF i >= Len(b) THEN edits
    ELSE LET line_start == i
             line_end == LineEnd(b, i)
             j == FwdWhile(b, line_start, line_end, is_space)
             new_indent == NewIndent(IndentCols(b, line_start, j))
             es == IF j = line_end
                   THEN (IF line_end > line_start
                         THEN Append(edits, TextEdit(line_start, line_end, <<>>))
                         ELSE edits)
                   ELSE IF new_indent # Slice(b, line_start, j)
                   THEN Append(edits, TextEdit(line_start, j, new_indent))
                   ELSE edits
         IN IndentLines(b, IF line_end < Len(b) THEN line_end + 1 ELSE line_end, es)

IndentStyleRule(b) == IndentLines(b, 0, <<>>)

----------------------------------------------------------------------------
(* rules/inline_comment_spacing.rs: InlineCommentSpacing *)

\* fn is_string_context(bytes, idx): one step of its loop.  st is "code",
\* "single" or "double"; the result is the next index and state.
StringContextStep(b, idx, i, st) ==
    LET c == At(b, i)
    IN IF st = "single"
       THEN (IF c = BS /\ i + 1 < idx THEN [i |-> i + 2, st |-> st]
             ELSE IF c = SQ THEN [i |-> i + 1, st |-> "code"]
             ELSE [i |-> i + 1, st |-> st])
       ELSE IF st = "double"
       THEN (IF c = BS /\ i + 1 < idx THEN [i |-> i + 2, st |-> st]
             ELSE IF c = DQ THEN [i |-> i + 1, st |-> "code"]
             ELSE [i |-> i + 1, st |-> st])
       ELSE IF c = SQ THEN [i |-> i + 1, st |-> "single"]
       ELSE IF c = DQ THEN [i |-> i + 1, st |-> "double"]
       ELSE [i |-> i + 1, st |-> st]

RECURSIVE StringContextFrom(_, _, _, _)
StringContextFrom(b, idx, i, st) ==
    IF i < idx /\ i < Len(b)
    THEN LET n == StringContextStep(b, idx, i, st)
         IN StringContextFrom(b, idx, n.i, n.st)
    ELSE st

is_string_context(b, idx) == StringContextFrom(b, idx, 0, "code") # "code"

\* The edits for one inline `//` found at i.
CommentEdits(b, i) ==
    LET line_start == LineStart(b, i)
        has_code_before == FwdWhile(b, line_start, i, is_space) < i
        ws_start == BackWhile(b, i, line_start, is_space)
        after == i + 2
    IN IF ~has_code_before THEN <<>>
       ELSE <<TextEdit(ws_start, i, <<SP, SP>>)>>
            \o (IF after < Len(b) /\ At(b, after) \notin is_newline
                THEN (IF At(b, after) = SP THEN <<>>
                      ELSE IF At(b, after) = TAB
                      THEN <<TextEdit(after, after + 1, <<SP>>)>>
                      ELSE <<TextEdit(after, after, <<SP>>)>>)
                ELSE <<>>)

RECURSIVE CommentScan(_, _, _)
CommentScan(b, i, edits) ==
    IF i + 1 >= Len(b) THEN edits
    ELSE IF At(b, i) = SL /\ At(b, i + 1) = SL
    THEN (IF is_string_context(b, i) THEN CommentScan(b, i + 2, edits)
          ELSE CommentScan(b, i + 2, edits \o CommentEdits(b, i)))
    ELSE CommentScan(b, i + 1, edits)

InlineCommentSpacing(b) == CommentScan(b, 0, <<>>)

----------------------------------------------------------------------------
(* rules/binary_ops.rs: AddSpacesAroundBinaryOps *)

SINGLE_OPS == {"+", "-", "*", "/", "%", "<", ">", "!"}

DOUBLE_OPS == {<<"=", "=">>, <<"!", "=">>, <<"<", "=">>, <<">", "=">>,
               <<"&", "&">>, <<"|", "|">>}

is_ascii_op_char == {"+", "-", "*", "/", "%", "<", ">", "=", "&", "|", "!"}

\* The nearest byte before i that is neither a space/tab nor a newline, as
\* an index, or -1 when there is none.
RECURSIVE PrevNonBlank(_, _)
PrevNonBlank(b, j) ==
    IF j = 0 THEN -1
    ELSE IF At(b, j - 1) \in (is_space \cup is_newline) THEN PrevNonBlank(b, j - 1)
    ELSE j - 1

is_unary_plus_minus(b, i) ==
    /\ At(b, i) \in {"+", "-"}
    /\ LET p == PrevNonBlank(b, i)
       IN p = -1 \/ At(b, p) \in ({"(", "[", "{", ",", ";", ":"} \cup is_ascii_op_char)

is_unary_bang(b, i) ==
    /\ At(b, i) = "!"
    /\ LET p == PrevNonBlank(b, i)
       IN p = -1 \/ At(b, p) \in ({"(", "[", "{", ",", ";"} \cup is_ascii_op_char)

\* Exactly one space on each side of the operator, not crossing a newline.
fix_around_op(b, op_start, op_len) ==
    LET op_end == op_start + op_len
        l == BackWhile(b, op_start, 0, inline_ws)
        r == FwdWhile(b, op_end, Len(b), inline_ws)
    IN (IF l = op_start THEN <<TextEdit(l, l, <<SP>>)>>
        ELSE IF op_start - l # 1 THEN <<TextEdit(l, op_start, <<SP>>)>>
        ELSE <<>>)
       \o
       (IF r = op_end THEN <<TextEdit(r, r, <<SP>>)>>
        ELSE IF r - op_end # 1 THEN <<TextEdit(op_end, r, <<SP>>)>>
        ELSE <<>>)

RECURSIVE BinaryOpsScan(_, _, _, _)
BinaryOpsScan(b, tr, i, edits) ==
    IF i >= Len(b) THEN edits
    ELSE IF in_comment_or_string(tr, i) THEN BinaryOpsScan(b, tr, i + 1, edits)
    ELSE IF i + 1 < Len(b) /\ <<At(b, i), At(b, i + 1)>> \in DOUBLE_OPS
    THEN BinaryOpsScan(b, tr, i + 2, edits \o fix_around_op(b, i, 2))
    ELSE IF At(b, i) \in SINGLE_OPS
            /\ ~is_unary_plus_minus(b, i) /\ ~is_unary_bang(b, i)
    THEN BinaryOpsScan(b, tr, i + 1, edits \o fix_around_op(b, i, 1))
    ELSE BinaryOpsScan(b, tr, i + 1, edits)

AddSpacesAroundBinaryOps(b, tr) == BinaryOpsScan(b, tr, 0, <<>>)

----------------------------------------------------------------------------
(* The byte-level string/comment scanners of the rules, one step each.     *)
(* A step reads byte i in state st and yields the next index and state.    *)

\* The lexer loop shared by block_brace.rs, inline_ws.rs, call_index_paren.rs,
\* keyword_paren.rs, parens_brackets.rs, pipe_body.rs, pipe_heads.rs and
\* var_arg.rs: a quote ends a string unless is_escaped.
LexerStep(b, i, st) ==
    LET c == At(b, i)
        two(k) == i + 1 < Len(b) /\ At(b, i + 1) = k
    IN CASE st = "line" ->
              [i |-> i + 1, st |-> IF c = NL THEN "code" ELSE st]
         [] st = "block" ->
              IF c = ST /\ two(SL) THEN [i |-> i + 2, st |-> "code"]
              ELSE [i |-> i + 1, st |-> st]
         [] st = "single" ->
              [i |-> i + 1, st |-> IF c = SQ /\ ~is_escaped(b, i) THEN "code" ELSE st]
         [] st = "double" ->
              [i |-> i + 1, st |-> IF c = DQ /\ ~is_escaped(b, i) THEN "code" ELSE st]
         [] OTHER ->
              IF c = SL /\ two(SL) THEN [i |-> i + 2, st |-> "line"]
              ELSE IF c = SL /\ two(ST) THEN [i |-> i + 2, st |-> "block"]
              ELSE IF c = SQ THEN [i |-> i + 1, st |-> "single"]
              ELSE IF c = DQ THEN [i |-> i + 1, st |-> "double"]
              ELSE [i |-> i + 1, st |-> st]

\* dot_chain_layout.rs: "very simple comment/string tracking"; any quote byte
\* ends the string.
DotChainStep(b, i, st) ==
    LET c == At(b, i)
        two(k) == i + 1 < Len(b) /\ At(b, i + 1) = k
    IN CASE st = "line" ->
              [i |-> i + 1, st |-> IF c = NL THEN "code" ELSE st]
         [] st = "block" ->
              IF c = ST /\ two(SL) THEN [i |-> i + 2, st |-> "code"]
              ELSE [i |-> i + 1, st |-> st]
         [] st = "single" ->
              [i |-> i + 1, st |-> IF c = SQ THEN "code" ELSE st]
         [] st = "double" ->
              [i |-> i + 1, st |-> IF c = DQ THEN "code" ELSE st]
         [] OTHER ->
              IF c = SL /\ two(SL) THEN [i |-> i + 2, st |-> "line"]
              ELSE IF c = SL /\ two(ST) THEN [i |-> i + 2, st |-> "block"]
              ELSE IF c = SQ THEN [i |-> i + 1, st |-> "single"]
              ELSE IF c = DQ THEN [i |-> i + 1, st |-> "double"]
              ELSE [i |-> i + 1, st |-> st]

\* CommentState::step(b) of compact_collections.rs, compact_if_trailing.rs,
\* expand_if_trailing.rs and events_multiline.rs: the state carries the
\* previous byte; a quote ends a string unless the previous byte is '\'.
CommentStateStep(b, i, st, prev) ==
    LET c == At(b, i)
    IN CASE st = "line" -> IF c \in is_newline THEN "code" ELSE st
         [] st = "block" -> IF prev = ST /\ c = SL THEN "code" ELSE st
         [] st = "single" -> IF c = SQ /\ prev # BS THEN "code" ELSE st
         [] st = "double" -> IF c = DQ /\ prev # BS THEN "code" ELSE st
         [] OTHER -> IF prev = SL /\ c = SL THEN "line"
                     ELSE IF prev = SL /\ c = ST THEN "block"
                     ELSE IF c = SQ THEN "single"
                     ELSE IF c = DQ THEN "double"
                     ELSE st

\* ScanState::step(bytes, i) of extra_trailing_closures.rs: on a backslash
\* inside a string the step returns, and the caller goes on to byte i + 1.
ScanStateStep(b, i, st) ==
    LET c == At(b, i)
        two(k) == i + 1 < Len(b) /\ At(b, i + 1) = k
    IN CASE st = "line" -> IF c = NL THEN "code" ELSE st
         [] st = "block" -> IF c = ST /\ two(SL) THEN "code" ELSE st
         [] st = "single" ->
              IF c = BS /\ i + 1 < Len(b) THEN st
              ELSE IF c = SQ THEN "code" ELSE st
         [] st = "double" ->
              IF c = BS /\ i + 1 < Len(b) THEN st
              ELSE IF c = DQ THEN "code" ELSE st
         [] OTHER -> IF c = SL /\ two(SL) THEN "line"
                     ELSE IF c = SL /\ two(ST) THEN "block"
                     ELSE IF c = SQ THEN "single"
                     ELSE IF c = DQ THEN "double"
                     ELSE st

----------------------------------------------------------------------------
(* The rules built on the lexer template *)

\* The offsets at which a lexer-template rule reaches its "actual rule"
\* part: the scanner is in code and the byte does not open a comment or a
\* string.
RECURSIVE LexerCode(_, _, _, _)
LexerCode(b, i, st, acc) ==
    IF i >= Len(b) THEN acc
    ELSE LET n == LexerStep(b, i, st)
         IN LexerCode(b, n.i, n.st,
                      IF st = "code" /\ n.st = "code" THEN Append(acc, i)
                      ELSE acc)

\* The edits pushed at each offset, in scan order.
RECURSIVE Concat(_)
Concat(ss) == IF ss = <<>> THEN <<>> ELSE Head(ss) \o Concat(Tail(ss))

\* rules/parens_brackets.rs, the match on b at offset i.
ParenBracketAt(b, i) ==
    IF At(b, i) \in {"(", "["}
    THEN LET j == FwdWhile(b, i + 1, Len(b), is_space)
         IN IF j > i + 1 THEN <<TextEdit(i + 1, j, <<>>)>> ELSE <<>>
    ELSE IF At(b, i) \in {")", "]"}
    THEN LET j == BackWhile(b, i, 0, is_space)
         IN IF j < i THEN <<TextEdit(j, i, <<>>)>> ELSE <<>>
    ELSE <<>>

\* rules/parens_brackets.rs: ParenBracketSpacing::run
ParenBracketSpacing(b) ==
    LET at == LexerCode(b, 0, "code", <<>>)
    IN Concat([k \in 1..Len(at) |-> ParenBracketAt(b, at[k])])

\* rules/block_brace.rs: fix_before_brace(bytes, brace, edits)
fix_before_brace(b, brace) ==
    LET ws_start == BackWhile(b, brace, 0, is_space)
    IN IF brace = 0 \/ ws_start = 0 THEN <<>>
       ELSE IF At(b, ws_start - 1) \in is_newline THEN <<>>
       ELSE IF brace - ws_start = 1 /\ At(b, ws_start) = SP THEN <<>>
       ELSE <<TextEdit(ws_start, brace, <<SP>>)>>

\* rules/block_brace.rs: BlockBraceSpacing::run
BlockBraceSpacing(b) ==
    LET at == LexerCode(b, 0, "code", <<>>)
    IN Concat([k \in 1..Len(at) |->
                  IF At(b, at[k]) = "{" THEN fix_before_brace(b, at[k])
                  ELSE <<>>])

----------------------------------------------------------------------------
(* rules/assignment.rs: AddSpacesAroundAssignment *)

\* The byte 0.
NUL == "NUL"

\* bytes.get(i).copied().unwrap_or_default(): the byte, or 0 out of range.
ByteOr0(b, i) == IF 0 <= i /\ i < Len(b) THEN At(b, i) ELSE NUL

is_assignment_eq(b, eq) ==
    ~(\/ ByteOr0(b, eq - 1) \in {"=", "<", ">", "!"}
      \/ ByteOr0(b, eq + 1) = "=")

\* is_ascii_whitespace() && != b'\n': the run fix_one collapses.
assign_ws == {SP, TAB, "\f", CR}

\* fix_one(bytes, eq, edits)
fix_one(b, eq) ==
    LET l == BackWhile(b, eq, 0, assign_ws)
        r == FwdWhile(b, eq + 1, Len(b), assign_ws)
    IN (IF l = eq THEN <<TextEdit(l, l, <<SP>>)>>
        ELSE IF eq - l # 1 THEN <<TextEdit(l, eq, <<SP>>)>>
        ELSE <<>>)
       \o
       (IF r = eq + 1 THEN <<TextEdit(r, r, <<SP>>)>>
        ELSE IF r - (eq + 1) # 1 THEN <<TextEdit(eq + 1, r, <<SP>>)>>
        ELSE <<>>)

\* AddSpacesAroundAssignment::run: the '=' tokens the query yields and the
\* '=' bytes of the fallback scan together are every '=' byte; each is
\* fixed once.  Two edits of the batch share a start only when they are
\* equal, so the order of the two loops does not show in the result.
AddSpacesAroundAssignment(b, tr) ==
    Concat([k \in 1..Len(b) |->
               IF /\ At(b, k - 1) = "="
                  /\ is_assignment_eq(b, k - 1)
                  /\ ~in_comment_or_string(tr, k - 1)
               THEN fix_one(b, k - 1)
               ELSE <<>>])

----------------------------------------------------------------------------
(* rules/inline_ws.rs, rules/semicolon.rs, rules/comma.rs *)

\* fn is_assignment_equal(src, i): the nearest non-blank byte on the left is
\* none of = ! < > and the nearest one on the right is not =.
is_assignment_equal(b, i) ==
    LET j == BackWhile(b, i, 0, is_space)
        k == FwdWhile(b, i + 1, Len(b), is_space)
    IN /\ ~(j > 0 /\ At(b, j - 1) \in {"=", "!", "<", ">"})
       /\ ~(k < Len(b) /\ At(b, k) = "=")

\* The edits of InlineWhitespaceFormat at the code byte i: both sides are
\* always written, also when one space is already there.
InlineWsAt(b, i) ==
    IF At(b, i) = "=" /\ is_assignment_equal(b, i)
    THEN LET check_r == FwdWhile(b, i + 1, Len(b), is_space)
             lhs_ws_start == BackWhile(b, i, 0, is_space)
         IN IF check_r < Len(b) /\ At(b, check_r) = "{" THEN <<>>
            ELSE <<IF lhs_ws_start < i THEN TextEdit(lhs_ws_start, i, <<SP>>)
                   ELSE TextEdit(i, i, <<SP>>),
                   IF i + 1 < check_r THEN TextEdit(i + 1, check_r, <<SP>>)
                   ELSE TextEdit(i + 1, i + 1, <<SP>>)>>
    ELSE <<>>

InlineWhitespaceFormat(b) ==
    LET at == LexerCode(b, 0, "code", <<>>)
    IN Concat([k \in 1..Len(at) |-> InlineWsAt(b, at[k])])

\* The matches of the query ( "c" ) @tok: the offsets of the anonymous token
\* c in the tree parsed from tr.
TokenOffsets(tr, c) ==
    LET cls == Lex(tr)
    IN {i \in 0..(Len(tr) - 1) : At(tr, i) = c /\ cls[i + 1] = "code"}

\* The elements of a set of offsets in increasing order.
RECURSIVE Ascending(_)
Ascending(S) ==
    IF S = {} THEN <<>>
    ELSE LET lo == CHOOSE i \in S : \A j \in S : i <= j
         IN <<lo>> \o Ascending(S \ {lo})

SemicolonAt(b, start) ==
    LET j == BackWhile(b, start, 0, is_space)
    IN IF j < start /\ (j = 0 \/ At(b, j - 1) # NL)
       THEN <<TextEdit(j, start, <<>>)>>
       ELSE <<>>

NoSpaceBeforeSemicolon(b, tr) ==
    LET at == Ascending({i \in TokenOffsets(tr, ";") : i < Len(b)})
    IN Concat([k \in 1..Len(at) |-> SemicolonAt(b, at[k])])

CommaAt(b, start) ==
    LET end == start + 1
        j == BackWhile(b, start, 0, is_space)
        k == FwdWhile(b, end, Len(b), is_space)
        next == IF k < Len(b) THEN At(b, k) ELSE NL
        is_delim == next \in {NL, ")", "]", "}", "|", ",", ";"}
    IN (IF start > 0 /\ j < start THEN <<TextEdit(j, start, <<>>)>> ELSE <<>>)
       \o
       (IF is_delim
        THEN (IF k > end THEN <<TextEdit(end, k, <<>>)>> ELSE <<>>)
        ELSE IF k = end THEN <<TextEdit(end, end, <<SP>>)>>
        ELSE IF k > end + 1 THEN <<TextEdit(end, k, <<SP>>)>>
        ELSE <<>>)

AddSpacesAfterCommas(b, tr) ==
    LET at == Ascending({i \in TokenOffsets(tr, ",") : i < Len(b)})
    IN Concat([k \in 1..Len(at) |-> CommaAt(b, at[k])])

----------------------------------------------------------------------------
(* rules/compact_if_trailing.rs and rules/expand_if_trailing.rs *)

MAX_LINE_WIDTH == 80

is_ident_char(c) ==
    c \in {"A", "B", "C", "D", "E", "F", "G", "H", "I", "J", "K", "L", "M",
           "N", "O", "P", "Q", "R", "S", "T", "U", "V", "W", "X", "Y", "Z",
           "a", "b", "c", "d", "e", "f", "g", "h", "i", "j", "k", "l", "m",
           "n", "o", "p", "q", "r", "s", "t", "u", "v", "w", "x", "y", "z",
           "0", "1", "2", "3", "4", "5", "6", "7", "8", "9", "_"}

\* The loop body after cs.step(b): n is the state of the scanner on byte m.i.
MatchByte(b, m, op, cl, n) ==
    IF n = "code" /\ At(b, m.i) = cl /\ m.depth = 0 THEN [m EXCEPT !.res = -1]
    ELSE IF n = "code" /\ At(b, m.i) = cl /\ m.depth = 1 THEN [m EXCEPT !.res = m.i]
    ELSE [i |-> m.i + 1, st |-> n, prev |-> At(b, m.i), res |-> m.res,
          depth |-> IF n # "code" THEN m.depth
                    ELSE IF At(b, m.i) = op THEN m.depth + 1
                    ELSE IF At(b, m.i) = cl THEN m.depth - 1
                    ELSE m.depth]

\* One turn of the loop of match_paren / match_brace.  m.res is -2 while the
\* loop runs, -1 for None, and the offset for Some.
MatchStep(b, m, op, cl) ==
    IF m.res # -2 THEN m
    ELSE IF m.i >= Len(b) THEN [m EXCEPT !.res = -1]
    ELSE MatchByte(b, m, op, cl, CommentStateStep(b, m.i, m.st, m.prev))

\* k turns of the loop, the first half and then the second half.
RECURSIVE MatchLoop(_, _, _, _, _)
MatchLoop(b, m, op, cl, k) ==
    IF m.res # -2 \/ k <= 0 THEN m
    ELSE IF k = 1 THEN MatchStep(b, m, op, cl)
    ELSE MatchLoop(b, MatchLoop(b, m, op, cl, k \div 2), op, cl, k - (k \div 2))

\* match_paren / match_brace: a fresh CommentState stepped from `open`; the
\* offset where the depth of op/cl outside comments and strings returns to
\* zero, or -1 for None.
MatchFrom(b, open, op, cl) ==
    MatchLoop(b, [i |-> open, st |-> "code", prev |-> NUL, depth |-> 0, res |-> -2],
              op, cl, Len(b) + 1).res

match_paren(b, open) == MatchFrom(b, open, "(", ")")

match_brace(b, open) == MatchFrom(b, open, "{", "}")

\* char::is_whitespace on the ASCII bytes of the model.
trim_ws == {SP, TAB, NL, CR, "\f"}

trim_ascii_slice(s) ==
    LET start == FwdWhile(s, 0, Len(s), trim_ws)
        end == BackWhile(s, Len(s), start, trim_ws)
    IN Slice(s, start, end)

HasNewline(b, lo, hi) == \E k \in lo..(hi - 1) : At(b, k) \in is_newline

\* while line_start > 0 && !is_newline(bytes[line_start - 1]) { line_start -= 1 }
IfLineStart(b, j) ==
    LET nl == {k \in 1..j : At(b, k - 1) \in is_newline}
    IN IF nl = {} THEN 0 ELSE CHOOSE k \in nl : \A m \in nl : m <= k

\* while line_end < len && !is_newline(bytes[line_end]) { line_end += 1 }
IfLineEnd(b, j) ==
    LET nl == {k \in j..(Len(b) - 1) : At(b, k) \in is_newline}
    IN IF nl = {} THEN Len(b) ELSE CHOOSE k \in nl : \A m \in nl : k <= m

NoIf == [ok |-> FALSE]

\* A bracketed piece once both ends are known: it must close and hold no
\* newline.
PieceClosed(b, open, close) ==
    IF close < 0 THEN NoIf
    ELSE IF HasNewline(b, open + 1, close) THEN NoIf
    ELSE [ok |-> TRUE, open |-> open, close |-> close]

\* The condition: "(" at open and its match.
CondFrom(b, open) ==
    IF open >= Len(b) \/ At(b, open) # "(" THEN NoIf
    ELSE PieceClosed(b, open, match_paren(b, open))

\* A block: "{" at open and its match.
BlockFrom(b, open) ==
    IF open >= Len(b) \/ At(b, open) # "{" THEN NoIf
    ELSE PieceClosed(b, open, match_brace(b, open))

\* The pieces of the construct: the trimmed bodies, the optional semicolon
\* at the first non-blank byte semi_at after the second block, and the end.
IfPieces(b, c, b1, b2, semi_at) ==
    [ok |-> TRUE,
     after |-> IF semi_at < Len(b) /\ At(b, semi_at) = ";"
               THEN semi_at + 1 ELSE semi_at,
     has_semi |-> semi_at < Len(b) /\ At(b, semi_at) = ";",
     cond_body |-> trim_ascii_slice(Slice(b, c.open + 1, c.close)),
     b1_body |-> trim_ascii_slice(Slice(b, b1.open + 1, b1.close)),
     b2_body |-> trim_ascii_slice(Slice(b, b2.open + 1, b2.close))]

IfAfterBlock2(b, c, b1, b2) ==
    IF ~b2.ok THEN NoIf
    ELSE IfPieces(b, c, b1, b2, FwdWhile(b, b2.close + 1, Len(b), is_space))

IfAfterBlock1(b, gap, c, b1) ==
    IF ~b1.ok THEN NoIf
    ELSE IfAfterBlock2(b, c, b1,
                       BlockFrom(b, FwdWhile(b, b1.close + 1, Len(b), gap)))

IfAfterCond(b, gap, c) ==
    IF ~c.ok THEN NoIf
    ELSE IfAfterBlock1(b, gap, c,
                       BlockFrom(b, FwdWhile(b, c.close + 1, Len(b), gap)))

\* The common head of try_compact_at and try_expand_at: the "if" token, the
\* condition, the two blocks and the optional semicolon.  gap is the set of
\* bytes skipped before each block: spaces, tabs and newlines in the
\* compactor, spaces and tabs in the expander.
IfParts(b, start, gap) ==
    IF ~(start + 1 < Len(b) /\ At(b, start) = "i" /\ At(b, start + 1) = "f")
    THEN NoIf
    ELSE IF start > 0 /\ is_ident_char(At(b, start - 1)) THEN NoIf
    ELSE IF start + 2 < Len(b) /\ is_ident_char(At(b, start + 2)) THEN NoIf
    ELSE IfAfterCond(b, gap,
                     CondFrom(b, FwdWhile(b, start + 2, Len(b), is_space)))

\* The single-line form both rules build: "if (c) { a } { b}" and the
\* semicolon if there was one.
Collapsed(p) ==
    <<"i", "f", SP, "(">> \o p.cond_body \o <<")", SP, "{", SP>> \o p.b1_body
        \o <<SP, "}", SP, "{", SP>> \o p.b2_body \o <<"}">>
        \o (IF p.has_semi THEN <<";">> ELSE <<>>)

\* The width check of the compactor: the line of the construct with the
\* segment [start, after) replaced must not exceed the limit.
CompactEdit(b, start, after, replacement) ==
    IF (IfLineEnd(b, after) - IfLineStart(b, start)) - (after - start)
           + Len(replacement) > MAX_LINE_WIDTH
    THEN <<>>
    ELSE <<TextEdit(start, after, replacement)>>

CompactParts(b, start, p) ==
    IF ~p.ok THEN <<>>
    ELSE IF ~HasNewline(b, start, p.after) THEN <<>>
    ELSE CompactEdit(b, start, p.after, Collapsed(p))

\* CompactShortIfTrailingClosures::try_compact_at: <<>> for None.
try_compact_at(b, start) ==
    CompactParts(b, start, IfParts(b, start, is_space \cup is_newline))

\* The multi-line form the expander writes; indent is the text between the
\* start of the line and the "if".
ExpandEdit(b, start, p, indent) ==
    <<TextEdit(start, p.after,
          indent \o <<"i", "f", SP, "(">> \o p.cond_body \o <<")", SP, "{", NL>>
              \o indent \o <<SP, SP, SP, SP>> \o p.b1_body \o <<NL>>
              \o indent \o <<"}", SP, "{", NL>>
              \o indent \o <<SP, SP, SP, SP>> \o p.b2_body \o <<NL>>
              \o indent
              \o (IF p.has_semi THEN <<"}", ";", NL>> ELSE <<"}", NL>>))>>

ExpandParts(b, start, p) ==
    IF ~p.ok THEN <<>>
    ELSE IF HasNewline(b, start, p.after) THEN <<>>
    ELSE IF Len(Collapsed(p)) <= MAX_LINE_WIDTH THEN <<>>
    ELSE ExpandEdit(b, start, p, Slice(b, IfLineStart(b, start), start))

\* ExpandLongIfTrailingClosures::try_expand_at: <<>> for None.
try_expand_at(b, start) == ExpandParts(b, start, IfParts(b, start, is_space))

\* The loop body after the try at an "if": a jump to the end of an emitted
\* edit, or one byte on.
IfScanTry(b, s, n, e) ==
    IF e = <<>>
    THEN [i |-> s.i + 1, st |-> n, prev |-> At(b, s.i), acc |-> s.acc]
    ELSE [i |-> e[1].end_byte, st |-> n, prev |-> At(b, s.i), acc |-> s.acc \o e]

\* The loop body after cs.step(b): n is the state of the scanner on byte s.i.
IfScanByte(which, b, s, n) ==
    IF n = "code" /\ At(b, s.i) = "i" /\ s.i + 1 < Len(b) /\ At(b, s.i + 1) = "f"
    THEN IfScanTry(b, s, n, IF which = "compact" THEN try_compact_at(b, s.i)
                            ELSE try_expand_at(b, s.i))
    ELSE [i |-> s.i + 1, st |-> n, prev |-> At(b, s.i), acc |-> s.acc]

\* One turn of the run loop of both rules: CommentState steps on the byte, a
\* try at an "if" outside comments and strings, and a jump to the end of an
\* emitted edit.
IfScanStep(which, b, s) ==
    IF s.i >= Len(b) THEN s
    ELSE IfScanByte(which, b, s, CommentStateStep(b, s.i, s.st, s.prev))

\* k turns of the loop, the first half and then the second half.
RECURSIVE IfScanLoop(_, _, _, _)
IfScanLoop(which, b, s, k) ==
    IF s.i >= Len(b) \/ k <= 0 THEN s
    ELSE IF k = 1 THEN IfScanStep(which, b, s)
    ELSE IfScanLoop(which, b, IfScanLoop(which, b, s, k \div 2), k - (k \div 2))

IfScan(which, b) ==
    IfScanLoop(which, b, [i |-> 0, st |-> "code", prev |-> NUL, acc |-> <<>>],
               Len(b)).acc

CompactShortIfTrailingClosures(b) == IfScan("compact", b)

ExpandLongIfTrailingClosures(b) == IfScan("expand", b)

----------------------------------------------------------------------------
(* rules/call_index_paren.rs: CallIndexParenSpacing *)

is_keyword(w) ==
    w \in {<<"i", "f">>, <<"w", "h", "i", "l", "e">>, <<"f", "o", "r">>,
           <<"s", "w", "i", "t", "c", "h">>, <<"c", "a", "s", "e">>}

\* while word_start > 0 && is_ident_char(bytes[word_start - 1]) { word_start -= 1 }
RECURSIVE WordStart(_, _)
WordStart(b, j) ==
    IF j > 0 /\ is_ident_char(At(b, j - 1)) THEN WordStart(b, j - 1) ELSE j

\* The byte before the blanks is the end of a callee: an identifier that is
\* no control keyword, or a closing bracket.
call_like(b, prev_index) ==
    IF is_ident_char(At(b, prev_index))
    THEN ~is_keyword(Slice(b, WordStart(b, prev_index), prev_index + 1))
    ELSE At(b, prev_index) \in {")", "]", "}"}

FixBeforeDelimAt(b, delim, ws_start) ==
    IF ws_start = delim \/ ws_start = 0 THEN <<>>
    ELSE IF At(b, ws_start - 1) \in is_newline THEN <<>>
    ELSE IF call_like(b, ws_start - 1) THEN <<TextEdit(ws_start, delim, <<>>)>>
    ELSE <<>>

fix_before_delim(b, delim) ==
    IF delim = 0 THEN <<>>
    ELSE FixBeforeDelimAt(b, delim, BackWhile(b, delim, 0, is_space))

CallIndexParenAt(b, i) ==
    IF At(b, i) \in {"(", "["} THEN fix_before_delim(b, i) ELSE <<>>

CallIndexParenSpacing(b) ==
    LET at == LexerCode(b, 0, "code", <<>>)
    IN Concat([k \in 1..Len(at) |-> CallIndexParenAt(b, at[k])])

----------------------------------------------------------------------------
(* rules/multiline_arrays.rs: MultiLineArrayElementsPerLine *)

\* The inner loop that looks for the closing bracket: every "[" and "]"
\* counts, -1 for None.
RECURSIVE ArrayClose(_, _, _)
ArrayClose(b, j, depth) ==
    IF j >= Len(b) THEN -1
    ELSE IF At(b, j) = "[" THEN ArrayClose(b, j + 1, depth + 1)
    ELSE IF At(b, j) = "]"
    THEN (IF depth = 1 THEN j ELSE ArrayClose(b, j + 1, depth - 1))
    ELSE ArrayClose(b, j + 1, depth)

\* The edit at k, the first byte that is no space or tab after a top-level
\* comma: a newline and the indentation of the line inserted before it.
ArrayBreakAt(b, seg_hi, k) ==
    IF k >= seg_hi THEN <<>>
    ELSE IF At(b, k) = NL THEN <<>>
    ELSE IF At(b, k) = SL /\ k + 1 < seg_hi /\ At(b, k + 1) \in {SL, ST} THEN <<>>
    ELSE <<TextEdit(k, k,
             <<NL>> \o Slice(b, LineStart(b, k),
                             FwdWhile(b, LineStart(b, k), k, is_space)))>>

\* for (idx, &b) in seg.iter().enumerate(): j is the offset seg_lo + idx.
RECURSIVE ArraySeg(_, _, _, _, _, _, _)
ArraySeg(b, seg_hi, j, paren, brace, bracket, edits) ==
    IF j >= seg_hi THEN edits
    ELSE IF At(b, j) = "(" THEN ArraySeg(b, seg_hi, j + 1, paren + 1, brace, bracket, edits)
    ELSE IF At(b, j) = ")" THEN ArraySeg(b, seg_hi, j + 1, paren - 1, brace, bracket, edits)
    ELSE IF At(b, j) = "{" THEN ArraySeg(b, seg_hi, j + 1, paren, brace + 1, bracket, edits)
    ELSE IF At(b, j) = "}" THEN ArraySeg(b, seg_hi, j + 1, paren, brace - 1, bracket, edits)
    ELSE IF At(b, j) = "[" THEN ArraySeg(b, seg_hi, j + 1, paren, brace, bracket + 1, edits)
    ELSE IF At(b, j) = "]" THEN ArraySeg(b, seg_hi, j + 1, paren, brace, bracket - 1, edits)
    ELSE IF At(b, j) = "," /\ paren = 0 /\ brace = 0 /\ bracket = 0
    THEN ArraySeg(b, seg_hi, j + 1, paren, brace, bracket,
                  edits \o ArrayBreakAt(b, seg_hi, FwdWhile(b, j + 1, seg_hi, is_space)))
    ELSE ArraySeg(b, seg_hi, j + 1, paren, brace, bracket, edits)

\* The edits for the array opened at `open` and closed at `close`.
ArrayEdits(b, open, close) ==
    IF \E k \in (open + 1)..(close - 1) : At(b, k) = NL
    THEN ArraySeg(b, close, open + 1, 0, 0, 0, <<>>)
    ELSE <<>>

\* The outer loop with the closing bracket of the array at i known.
RECURSIVE ArrayScan(_, _, _, _)
ArrayScanClosed(b, tr, i, edits, close) ==
    IF close < 0 THEN ArrayScan(b, tr, i + 1, edits)
    ELSE ArrayScan(b, tr, close + 1, edits \o ArrayEdits(b, i, close))

ArrayScan(b, tr, i, edits) ==
    IF i >= Len(b) THEN edits
    ELSE IF At(b, i) = "[" /\ ~in_comment_or_string(tr, i)
    THEN ArrayScanClosed(b, tr, i, edits, ArrayClose(b, i + 1, 1))
    ELSE ArrayScan(b, tr, i + 1, edits)

MultiLineArrayElementsPerLine(b, tr) == ArrayScan(b, tr, 0, <<>>)

----------------------------------------------------------------------------
(* rules/compact_collections.rs: CompactShortCollections *)

\* fn match_delim: the same loop as match_paren, for any pair.
match_delim(b, open, open_b, close_b) == MatchFrom(b, open, open_b, close_b)

\* fn slice_has_comment: a fresh CommentState stepped over [i, end).
RECURSIVE slice_has_comment(_, _, _, _, _)
SliceCommentNext(b, i, end, n) ==
    IF n \in {"line", "block"} THEN TRUE
    ELSE slice_has_comment(b, i + 1, end, n, At(b, i))

slice_has_comment(b, i, end, st, prev) ==
    IF i >= end THEN FALSE
    ELSE SliceCommentNext(b, i, end, CommentStateStep(b, i, st, prev))

\* has_top_level_event_colon and collect_top_level_elements keep three
\* depths; Bump is the change of the depth of the pair op/cl on byte c.
Bump(c, op, cl) == IF c = op THEN 1 ELSE IF c = cl THEN -1 ELSE 0

\* fn has_top_level_event_colon: i runs over [open, close].
RECURSIVE has_top_level_event_colon(_, _, _, _, _, _, _, _)
EventColonNext(b, i, close, n, par, sq, br) ==
    IF n # "code"
    THEN has_top_level_event_colon(b, i + 1, close, n, At(b, i), par, sq, br)
    ELSE IF At(b, i) = ":" /\ par = 1 /\ sq = 0 /\ br = 0 THEN TRUE
    ELSE has_top_level_event_colon(b, i + 1, close, n, At(b, i),
             par + Bump(At(b, i), "(", ")"), sq + Bump(At(b, i), "[", "]"),
             br + Bump(At(b, i), "{", "}"))

has_top_level_event_colon(b, i, close, st, prev, par, sq, br) ==
    IF i > close THEN FALSE
    ELSE EventColonNext(b, i, close, CommentStateStep(b, i, st, prev), par, sq, br)

\* fn collect_top_level_elements: s is [i, st, prev, par, sq, br, start,
\* elems]; one turn of the loop with the scanner's state n on byte s.i.
ElementsByte(b, s, n) ==
    IF n # "code" THEN [s EXCEPT !.i = s.i + 1, !.st = n, !.prev = At(b, s.i)]
    ELSE IF At(b, s.i) = "," /\ s.par = 0 /\ s.sq = 0 /\ s.br = 0
    THEN [s EXCEPT !.i = s.i + 1, !.st = n, !.prev = At(b, s.i),
                   !.start = s.i + 1, !.elems = Append(s.elems, <<s.start, s.i>>)]
    ELSE [s EXCEPT !.i = s.i + 1, !.st = n, !.prev = At(b, s.i),
                   !.par = s.par + Bump(At(b, s.i), "(", ")"),
                   !.sq = s.sq + Bump(At(b, s.i), "[", "]"),
                   !.br = s.br + Bump(At(b, s.i), "{", "}")]

RECURSIVE ElementsLoop(_, _, _)
ElementsLoop(b, s, inner_end) ==
    IF s.i >= inner_end
    THEN (IF s.start < inner_end THEN Append(s.elems, <<s.start, inner_end>>)
          ELSE s.elems)
    ELSE ElementsLoop(b, ElementsByte(b, s, CommentStateStep(b, s.i, s.st, s.prev)),
                      inner_end)

collect_top_level_elements(b, inner_start, inner_end) ==
    ElementsLoop(b, [i |-> inner_start, st |-> "code", prev |-> NUL, par |-> 0,
                     sq |-> 0, br |-> 0, start |-> inner_start, elems |-> <<>>],
                 inner_end)

\* The trimmed, non-empty elements.
RECURSIVE TrimmedParts(_, _)
TrimmedPartsAdd(b, elems, t) ==
    IF t = <<>> THEN TrimmedParts(b, Tail(elems))
    ELSE <<t>> \o TrimmedParts(b, Tail(elems))

TrimmedParts(b, elems) ==
    IF elems = <<>> THEN <<>>
    ELSE TrimmedPartsAdd(b, elems,
                         trim_ascii_slice(Slice(b, Head(elems)[1], Head(elems)[2])))

\* parts.join(", ")
RECURSIVE JoinCommaSpace(_)
JoinCommaSpace(parts) ==
    IF parts = <<>> THEN <<>>
    ELSE IF Len(parts) = 1 THEN parts[1]
    ELSE parts[1] \o <<",", SP>> \o JoinCommaSpace(Tail(parts))

\* The width check of both compactors and the edit.
CollectionEdit(b, open, close, replacement) ==
    IF (IfLineEnd(b, close + 1) - IfLineStart(b, open)) - (close + 1 - open)
           + Len(replacement) <= MAX_LINE_WIDTH
    THEN <<TextEdit(open, close + 1, replacement)>>
    ELSE <<>>

CollectionJoin(b, open, close, open_b, close_b, parts) ==
    IF Len(parts) < 2 THEN <<>>
    ELSE CollectionEdit(b, open, close,
                        <<open_b>> \o JoinCommaSpace(parts) \o <<close_b>>)

\* try_compact_array and try_compact_event.
try_compact(b, open, close, open_b, close_b) ==
    IF ~HasNewline(b, open + 1, close) THEN <<>>
    ELSE IF slice_has_comment(b, open + 1, close, "code", NUL) THEN <<>>
    ELSE IF open_b = "("
            /\ ~has_top_level_event_colon(b, open, close, "code", NUL, 0, 0, 0)
    THEN <<>>
    ELSE CollectionJoin(b, open, close, open_b, close_b,
             TrimmedParts(b, collect_top_level_elements(b, open + 1, close)))

\* One turn of the run loop: s is [i, st, prev, acc].
CollectionsMatched(b, s, n, close, open_b, close_b) ==
    IF close < 0
    THEN [i |-> s.i + 1, st |-> n, prev |-> At(b, s.i), acc |-> s.acc]
    ELSE [i |-> close + 1, st |-> n, prev |-> At(b, s.i),
          acc |-> s.acc \o try_compact(b, s.i, close, open_b, close_b)]

CollectionsByte(b, s, n) ==
    IF n = "code" /\ At(b, s.i) = "["
    THEN CollectionsMatched(b, s, n, match_delim(b, s.i, "[", "]"), "[", "]")
    ELSE IF n = "code" /\ At(b, s.i) = "("
    THEN CollectionsMatched(b, s, n, match_delim(b, s.i, "(", ")"), "(", ")")
    ELSE [i |-> s.i + 1, st |-> n, prev |-> At(b, s.i), acc |-> s.acc]

RECURSIVE CollectionsLoop(_, _)
CollectionsLoop(b, s) ==
    IF s.i >= Len(b) THEN s.acc
    ELSE CollectionsLoop(b, CollectionsByte(b, s,
                                CommentStateStep(b, s.i, s.st, s.prev)))

CompactShortCollections(b) ==
    CollectionsLoop(b, [i |-> 0, st |-> "code", prev |-> NUL, acc |-> <<>>])

----------------------------------------------------------------------------
(* rules/dot_chain_layout.rs: DotChainLayout *)

ascii_digit == {"0", "1", "2", "3", "4", "5", "6", "7", "8", "9"}

\* byte.is_ascii_lowercase() || byte.is_ascii_uppercase() || '_' || '\\'
is_ident_start(c) == (is_ident_char(c) /\ c \notin ascii_digit) \/ c = BS

\* The dot at dot_idx ends its line and k is the first byte of the next line
\* that is no space or tab: the dot moves in front of an identifier.
DotChainMove(b, dot_idx, j, k) ==
    IF k < Len(b) /\ is_ident_start(At(b, k))
    THEN [i |-> k + 1,
          edits |-> <<TextEdit(dot_idx, j, <<>>), TextEdit(k, k, <<".">>)>>]
    ELSE [i |-> dot_idx + 1, edits |-> <<>>]

\* j is the first byte after the dot that is no space or tab.
DotChainAhead(b, dot_idx, j) ==
    IF j < Len(b) /\ At(b, j) \in is_newline
    THEN DotChainMove(b, dot_idx, j,
             FwdWhile(b, IF At(b, j) = CR /\ j + 1 < Len(b) /\ At(b, j + 1) = NL
                         THEN j + 2 ELSE j + 1,
                      Len(b), is_space))
    ELSE [i |-> dot_idx + 1, edits |-> <<>>]

\* check_idx is the start of the spaces and tabs before the dot.
DotChainChecked(b, dot_idx, check_idx) ==
    IF check_idx = 0 \/ At(b, check_idx - 1) \in is_newline
    THEN [i |-> dot_idx + 1, edits |-> <<>>]
    ELSE DotChainAhead(b, dot_idx, FwdWhile(b, dot_idx + 1, Len(b), is_space))

\* "main dot logic" for the code byte '.' at dot_idx.
DotChainAt(b, dot_idx) ==
    IF dot_idx > 0 /\ At(b, dot_idx - 1) \in ascii_digit
    THEN [i |-> dot_idx + 1, edits |-> <<>>]
    ELSE DotChainChecked(b, dot_idx, BackWhile(b, dot_idx, 0, is_space))

\* One turn of the loop: n is what the string and comment tracking makes of
\* byte i in state st, d the outcome of the dot logic when the byte is a
\* code '.'.
RECURSIVE DotChainLoop(_, _, _, _)
DotChainDot(b, st, acc, d) == DotChainLoop(b, d.i, st, acc \o d.edits)

DotChainByte(b, i, st, acc, n) ==
    IF st = "code" /\ n.st = "code" /\ n.i = i + 1 /\ At(b, i) = "."
    THEN DotChainDot(b, st, acc, DotChainAt(b, i))
    ELSE DotChainLoop(b, n.i, n.st, acc)

DotChainLoop(b, i, st, acc) ==
    IF i >= Len(b) THEN acc
    ELSE DotChainByte(b, i, st, acc, DotChainStep(b, i, st))

DotChainLayout(b) == DotChainLoop(b, 0, "code", <<>>)

----------------------------------------------------------------------------
(* rules/dot.rs: NoSpacesAroundDot *)

\* u8::is_ascii_whitespace() without '\n'
ascii_ws_not_lf == {SP, TAB, CR, "\f"}

\* The captures of (method_call "." @dot): the '.' tokens of the tree that
\* are no decimal point.
MethodCallDots(tr) ==
    {i \in TokenOffsets(tr, ".") : i = 0 \/ At(tr, i - 1) \notin ascii_digit}

\* fn is_dot_at_line_start: only white space between the last line break
\* and the dot.
is_dot_at_line_start(src, dot_pos) ==
    \/ BackWhile(src, dot_pos, 0, inline_ws) = 0
    \/ At(src, BackWhile(src, dot_pos, 0, inline_ws) - 1) \in is_newline

\* The edits left and right of the dot, l and r being the ends of the white
\* space around it.
DotStrip(dot, l, r) ==
    (IF l # dot THEN <<TextEdit(l, dot, <<>>)>> ELSE <<>>)
    \o (IF r # dot + 1 THEN <<TextEdit(dot + 1, r, <<>>)>> ELSE <<>>)

NoSpacesAroundDotAt(src, tr, dot) ==
    IF in_comment_or_string(tr, dot) THEN <<>>
    ELSE IF is_dot_at_line_start(src, dot) THEN <<>>
    ELSE DotStrip(dot, BackWhile(src, dot, 0, ascii_ws_not_lf),
                  FwdWhile(src, dot + 1, Len(src), ascii_ws_not_lf))

NoSpacesAroundDot(b, tr) ==
    LET at == Ascending({i \in MethodCallDots(tr) : i < Len(b)})
    IN Concat([k \in 1..Len(at) |-> NoSpacesAroundDotAt(b, tr, at[k])])

----------------------------------------------------------------------------
(* rules/brace_pipes.rs: BraceAndPipesSingleLine, blocks without parameters *)

\* Opening minus closing braces of the tree's tokens in [open, j].
BraceDepth(tr, cls, open, j) ==
    Cardinality({k \in open..j : At(tr, k) = "{" /\ cls[k + 1] = "code"})
    - Cardinality({k \in open..j : At(tr, k) = "}" /\ cls[k + 1] = "code"})

\* The closing braces that balance the '{' token at open.
BlockCloses(tr, cls, open) ==
    {j \in (open + 1)..(Len(tr) - 1) :
        /\ At(tr, j) = "}"
        /\ cls[j + 1] = "code"
        /\ BraceDepth(tr, cls, open, j) = 0}

\* The byte ranges of the function_block nodes, <<open, close>>, outermost
\* and leftmost first.
FunctionBlocksOf(tr, cls) ==
    LET opens == Ascending({i \in TokenOffsets(tr, "{") :
                               BlockCloses(tr, cls, i) # {}})
    IN [k \in 1..Len(opens) |->
           <<opens[k],
             CHOOSE j \in BlockCloses(tr, cls, opens[k]) :
                 \A j2 \in BlockCloses(tr, cls, opens[k]) : j <= j2>>]

FunctionBlocks(tr) == FunctionBlocksOf(tr, Lex(tr))

\* fn same_line
same_line(src, a, b) == \A k \in a..(b - 1) : At(src, k) # NL

\* "After '{' -> exactly one space"
AfterOpenBrace(open, after_l) ==
    IF after_l = open + 1 THEN <<TextEdit(after_l, after_l, <<SP>>)>>
    ELSE IF after_l > open + 2 THEN <<TextEdit(open + 1, after_l, <<SP>>)>>
    ELSE <<>>

\* "Before '}' -> exactly one space"
BeforeCloseBrace(close, before_r) ==
    IF before_r = close THEN <<TextEdit(before_r, before_r, <<SP>>)>>
    ELSE IF close - before_r # 1 THEN <<TextEdit(before_r, close, <<SP>>)>>
    ELSE <<>>

BraceAndPipesAt(src, tr, open, close) ==
    IF close >= Len(src) \/ At(src, open) # "{" \/ At(src, close) # "}" THEN <<>>
    ELSE IF ~same_line(src, open, close) THEN <<>>
    ELSE IF in_comment_or_string(tr, open) THEN <<>>
    ELSE AfterOpenBrace(open, FwdWhile(src, open + 1, Len(src), ascii_ws_not_lf))
         \o BeforeCloseBrace(close, BackWhile(src, close, 0, ascii_ws_not_lf))

BraceAndPipesOver(src, tr, blks) ==
    Concat([k \in 1..Len(blks) |->
               BraceAndPipesAt(src, tr, blks[k][1], blks[k][2])])

BraceAndPipesSingleLine(b, tr) == BraceAndPipesOver(b, tr, FunctionBlocks(tr))

----------------------------------------------------------------------------
(* rules/no_final_semicolon.rs: NoFinalSemicolon *)

\* j is one past the last byte before the '}' that is no white space.
FinalSemicolonAt(b, tr, j) ==
    IF j > 0 /\ At(b, j - 1) = ";" /\ ~in_comment_or_string(tr, j - 1)
    THEN <<TextEdit(j - 1, j, <<>>)>>
    ELSE <<>>

NoFinalSemicolonAt(b, tr, i) ==
    IF At(b, i) # "}" \/ in_comment_or_string(tr, i) THEN <<>>
    ELSE FinalSemicolonAt(b, tr, BackWhile(b, i, 0, {SP, TAB, CR, NL}))

NoFinalSemicolon(b, tr) ==
    Concat([k \in 1..Len(b) |-> NoFinalSemicolonAt(b, tr, k - 1)])

----------------------------------------------------------------------------
(* Bounds *)

MaxApplyLen == 3   \* longest buffer handed to apply_edits on its own
MaxEdits == 2      \* largest edit batch handed to apply_edits on its own
MaxScanLen == 4    \* longest buffer the scanners are stepped over

ApplyBytes == {"a", "b"}

ScanBytes == {DQ, SQ, BS, X}

ScannerKinds == {"lexer", "dot_chain", "CommentState", "ScanState", "is_string_context"}

NoOutput == <<"no output">>

Idle == [kind |-> "none", i |-> 0, st |-> "code", prev |-> "", from |-> -1, was |-> "code"]

----------------------------------------------------------------------------
(* Specification SpecApply: Ctx::apply_edits on any buffer and any batch   *)
(* of edits whose ranges lie inside the buffer.                            *)

EditsOf(t) ==
    {TextEdit(s, e, r) : s \in 0..Len(t), e \in 0..Len(t), r \in {<<>>, <<"X">>}}

\* An edit replaces a range by something or inserts something.
ValidEdits(t) ==
    {e \in EditsOf(t) : /\ e.start_byte <= e.end_byte
                        /\ (e.start_byte = e.end_byte => e.replacement # <<>>)}

InitApply ==
    /\ text \in SeqsUpTo(ApplyBytes, MaxApplyLen)
    /\ batch \in SeqsUpTo(ValidEdits(text), MaxEdits)
    /\ tree = text
    /\ errs = <<>>
    /\ pc = 0
    /\ result = "idle"
    /\ ran = <<>>
    /\ pre = text
    /\ pass = 1
    /\ out1 = NoOutput
    /\ input = text
    /\ phase = "inline"
    /\ scan = Idle

\* apply_edits without the reparse: the rope is spliced, the tree is kept.
ApplyEditsNoReparse(edits, parsed, go) ==
    /\ pre' = text
    /\ batch' = edits
    /\ UNCHANGED <<tree, errs>>
    /\ IF edits = <<>>
       THEN /\ UNCHANGED text
            /\ result' = go
       ELSE LET r == apply_edits(text, edits)
            IN IF ~r.ok
               THEN /\ UNCHANGED text
                    /\ result' = "panic"
               ELSE /\ text' = r.text
                    /\ result' = go

\* pub fn apply_edits(&mut self, edits): the whole method.  parsed is the
\* parser's answer on the reparse (FALSE: no tree, "reparse failed"); go is
\* the state of the call after an Ok(()).
ApplyEdits(edits, parsed, go) ==
    /\ pre' = text
    /\ batch' = edits
    /\ IF edits = <<>>
       THEN /\ UNCHANGED <<text, tree, errs>>
            /\ result' = go
       ELSE LET r == apply_edits(text, edits)
            IN IF ~r.ok
               THEN /\ UNCHANGED <<text, tree, errs>>
                    /\ result' = "panic"
               ELSE /\ text' = r.text
                    /\ tree' = IF parsed THEN r.text ELSE tree
                    /\ errs' = IF parsed THEN ErrorRange(r.text) ELSE errs
                    /\ result' = IF parsed THEN go ELSE "err"

CallApplyEdits ==
    /\ result = "idle"
    /\ \E parsed \in BOOLEAN : ApplyEdits(batch, parsed, "ok")
    /\ UNCHANGED <<pc, ran, pass, out1, input, phase, scan>>

NextApply == CallApplyEdits

SpecApply == InitApply /\ [][NextApply]_vars

----------------------------------------------------------------------------
(* Claims about Ctx::apply_edits, checked under SpecApply *)

\* b starts inside a: a.start < b.start < a.end.
Conflict(a, b) == a.start_byte < b.start_byte /\ b.start_byte < a.end_byte

\* t with the single range of e replaced.
ReplaceRange(t, e) ==
    Slice(t, 0, e.start_byte) \o e.replacement \o Slice(t, e.end_byte, Len(t))

\* C5: when two edits of one batch conflict, only the edit with the later
\* start is applied: the result is the pre-edit text with that edit alone,
\* and no error is raised.
C5_LaterStartWins ==
    (result # "idle" /\ Len(batch) = 2) =>
        \A i, j \in {1, 2} :
            Conflict(batch[i], batch[j]) =>
                /\ result # "panic"
                /\ text = ReplaceRange(pre, batch[j])

\* The edits are pairwise non-overlapping.
Disjoint(edits) ==
    \A i, j \in 1..Len(edits) :
        i # j => \/ edits[i].end_byte <= edits[j].start_byte
                 \/ edits[j].end_byte <= edits[i].start_byte

\* No two zero-width insertions at one offset (their order is not fixed by
\* their ranges).
NoTwinInserts(edits) ==
    \A i, j \in 1..Len(edits) :
        (i # j /\ edits[i].start_byte = edits[j].start_byte)
            => edits[i].end_byte # edits[j].end_byte

\* The edits ordered by their ranges in the pre-edit text.
RECURSIVE InsertByRange(_, _)
InsertByRange(sorted, e) ==
    IF sorted = <<>> THEN <<e>>
    ELSE IF \/ Last(sorted).start_byte < e.start_byte
            \/ /\ Last(sorted).start_byte = e.start_byte
               /\ Last(sorted).end_byte <= e.end_byte
         THEN Append(sorted, e)
    ELSE Append(InsertByRange(Front(sorted), e), Last(sorted))

RECURSIVE SortByRange(_)
SortByRange(edits) ==
    IF edits = <<>> THEN <<>>
    ELSE InsertByRange(SortByRange(Front(edits)), Last(edits))

\* The pre-edit text t from offset `from` on, with each range replaced.
RECURSIVE Rebuild(_, _, _)
Rebuild(t, from, ordered) ==
    IF ordered = <<>> THEN Slice(t, from, Len(t))
    ELSE Slice(t, from, Head(ordered).start_byte) \o Head(ordered).replacement
         \o Rebuild(t, Head(ordered).end_byte, Tail(ordered))

\* C6: for a batch of pairwise non-overlapping edits in any list order the
\* result is the pre-edit text with each range replaced by its replacement,
\* also when a zero-width insertion shares its start with another edit.
C6_OffsetsValid ==
    (result # "idle" /\ batch # <<>> /\ Disjoint(batch) /\ NoTwinInserts(batch)) =>
        /\ result # "panic"
        /\ text = Rebuild(pre, 0, SortByRange(batch))

----------------------------------------------------------------------------
(* Specification SpecScan: one of the rules' scanners is stepped over any  *)
(* buffer, byte by byte, the way its rule drives it.                       *)

InitScan ==
    /\ text \in SeqsUpTo(ScanBytes, MaxScanLen)
    /\ \E k \in ScannerKinds : scan = [Idle EXCEPT !.kind = k]
    /\ tree = text
    /\ errs = <<>>
    /\ pc = 0
    /\ result = "idle"
    /\ ran = <<>>
    /\ pre = text
    /\ batch = <<>>
    /\ pass = 1
    /\ out1 = NoOutput
    /\ input = text
    /\ phase = "inline"

Stepped(n, newprev) ==
    scan' = [scan EXCEPT !.i = n.i, !.st = n.st, !.prev = newprev,
                         !.from = scan.i, !.was = scan.st]

ScanLexer ==
    /\ scan.kind = "lexer" /\ scan.i < Len(text)
    /\ Stepped(LexerStep(text, scan.i, scan.st), "")
    /\ UNCHANGED <<text, tree, errs, pc, result, ran, pre, batch, pass, out1, input,
                 phase>>

ScanDotChain ==
    /\ scan.kind = "dot_chain" /\ scan.i < Len(text)
    /\ Stepped(DotChainStep(text, scan.i, scan.st), "")
    /\ UNCHANGED <<text, tree, errs, pc, result, ran, pre, batch, pass, out1, input,
                 phase>>

\* let b = bytes[i]; cs.step(b); ... i += 1
ScanCommentState ==
    /\ scan.kind = "CommentState" /\ scan.i < Len(text)
    /\ Stepped([i |-> scan.i + 1,
                st |-> CommentStateStep(text, scan.i, scan.st, scan.prev)],
               At(text, scan.i))
    /\ UNCHANGED <<text, tree, errs, pc, result, ran, pre, batch, pass, out1, input,
                 phase>>

\* st.step(bytes, i); ... i += 1
ScanScanState ==
    /\ scan.kind = "ScanState" /\ scan.i < Len(text)
    /\ Stepped([i |-> scan.i + 1, st |-> ScanStateStep(text, scan.i, scan.st)], "")
    /\ UNCHANGED <<text, tree, errs, pc, result, ran, pre, batch, pass, out1, input,
                 phase>>

\* is_string_context(bytes, idx) with idx at the end of the buffer
ScanStringContext ==
    /\ scan.kind = "is_string_context" /\ scan.i < Len(text)
    /\ Stepped(StringContextStep(text, Len(text), scan.i, scan.st), "")
    /\ UNCHANGED <<text, tree, errs, pc, result, ran, pre, batch, pass, out1, input,
                 phase>>

NextScan ==
    \/ ScanLexer
    \/ ScanDotChain
    \/ ScanCommentState
    \/ ScanScanState
    \/ ScanStringContext

SpecScan == InitScan /\ [][NextScan]_vars

QuoteOf(st) == IF st = "single" THEN SQ ELSE DQ

\* C9: in every scanner, while in a single- or double-quoted string state, a
\* quote byte preceded by an odd number of consecutive backslashes does not
\* end the string state.
C9_EscapedQuoteStaysInString ==
    (/\ scan.from >= 0
     /\ scan.was \in {"single", "double"}
     /\ At(text, scan.from) = QuoteOf(scan.was)
     /\ is_escaped(text, scan.from))
        => scan.st = scan.was

\* The state of the lexer template (is_escaped) after the whole of b.
RECURSIVE LexerFinal(_, _, _)
LexerFinalNext(b, n) == LexerFinal(b, n.i, n.st)

LexerFinal(b, i, st) ==
    IF i >= Len(b) THEN st ELSE LexerFinalNext(b, LexerStep(b, i, st))

InString(st) == st \in {"single", "double"}

\* C19: in every scanner, while in a string state, the matching quote
\* preceded by an even number (zero included) of consecutive backslashes ends
\* the string, so the byte after it is code; and at the end of any buffer
\* every scanner is inside a string exactly when the lexer template is.
C19_EvenBackslashesEndString ==
    /\ (/\ scan.from >= 0
        /\ scan.was \in {"single", "double"}
        /\ At(text, scan.from) = QuoteOf(scan.was)
        /\ ~is_escaped(text, scan.from))
           => scan.st = "code"
    /\ scan.i >= Len(text)
           => InString(scan.st) = InString(LexerFinal(text, 0, "code"))

\* ---------------------------------------------------------------------------
\* SpecRule: one rule, run once on an arbitrary well-terminated buffer.
\* ---------------------------------------------------------------------------

MaxRuleLen == 4

RuleBytes == {X, SP, TAB, NL, SL, DQ, ")"}

\* Every string and block comment of b is closed: after a newline the
\* classifier is back in code.
WellTerminated(b) == Last(Lex(b \o <<NL, X>>)) = "code"

InitRule ==
    /\ text \in {b \in SeqsUpTo(RuleBytes, MaxRuleLen) : WellTerminated(b)}
    /\ tree = text
    /\ errs = ErrorRange(text)
    /\ pc = 0
    /\ result = "idle"
    /\ ran = <<>>
    /\ pre = text
    /\ batch = <<>>
    /\ pass = 1
    /\ out1 = NoOutput
    /\ input = text
    /\ phase = "inline"
    /\ scan = Idle

\* rule.run(cx) on the Ctx: collect the edits, then
\* if !edits.is_empty() { cx.apply_edits(edits)?; }
RunOnce(name, edits) ==
    /\ ran' = <<name>>
    /\ \E parsed \in BOOLEAN : ApplyEdits(edits, parsed, "ok")
    /\ UNCHANGED <<pc, pass, out1, input, phase, scan>>

RunTrimTrailingWhitespaceAndEofNewline ==
    /\ result = "idle"
    /\ RunOnce("TrimTrailingWhitespaceAndEofNewline",
               TrimTrailingWhitespaceAndEofNewline(text))

RunIndentStyleRule ==
    /\ result = "idle"
    /\ RunOnce("IndentStyleRule", IndentStyleRule(text))

RunInlineCommentSpacing ==
    /\ result = "idle"
    /\ RunOnce("InlineCommentSpacing", InlineCommentSpacing(text))

RunAddSpacesAroundBinaryOps ==
    /\ result = "idle"
    /\ RunOnce("AddSpacesAroundBinaryOps",
               AddSpacesAroundBinaryOps(text, tree))

NextRule ==
    \/ RunTrimTrailingWhitespaceAndEofNewline
    \/ RunIndentStyleRule
    \/ RunInlineCommentSpacing
    \/ RunAddSpacesAroundBinaryOps

SpecRule == InitRule /\ [][NextRule]_vars

\* The bytes of the buffer the rule read that an edit replaces or deletes.
Touched(e) == e.start_byte .. (e.end_byte - 1)

\* C2: no rule emits an edit whose byte range lies inside a string, symbol,
\* character literal, line comment or block comment: the contents of those
\* tokens are the same bytes before and after the rule.
C2_NoEditInsideStringOrComment ==
    \A k \in 1..Len(batch) : \A i \in Touched(batch[k]) :
        Lex(pre)[i + 1] = "code"

\* C3: no rule emits an edit whose byte range intersects a subtree that the
\* parser flagged as an error; the bytes of that subtree pass through.
C3_NoEditInsideErrorSubtree ==
    ErrorRange(pre) # <<>> =>
        \A k \in 1..Len(batch) : \A i \in Touched(batch[k]) :
            ~(ErrorRange(pre)[1] <= i /\ i < ErrorRange(pre)[2])

\* C4: the edits of one batch are pairwise disjoint: ordered by start offset,
\* every edit ends at or before the start of the next one.
C4_BatchPairwiseDisjoint ==
    LET sorted == SortByStart(batch)
    IN \A k \in 1..(Len(sorted) - 1) :
           sorted[k].end_byte <= sorted[k + 1].start_byte

\* No line of b ends in a space or a tab.
NoTrailingBlank(b) ==
    \A i \in 1..Len(b) :
        (i = Len(b) \/ At(b, i) = NL) => At(b, i - 1) \notin {SP, TAB}

\* b ends with exactly one newline.
OneFinalNewline(b) ==
    /\ Len(b) >= 1
    /\ At(b, Len(b) - 1) = NL
    /\ Len(b) >= 2 => At(b, Len(b) - 2) # NL

\* C16: after TrimTrailingWhitespaceAndEofNewline has run on any buffer, no
\* line ends in a space or a tab and the text ends with exactly one newline.
C16_TrimPostcondition ==
    (result = "ok" /\ ran = <<"TrimTrailingWhitespaceAndEofNewline">>) =>
        NoTrailingBlank(text) /\ OneFinalNewline(text)

\* ---------------------------------------------------------------------------
\* Spec: format_source on a source text, and the idempotence test's second
\* call on the output of the first.
\* ---------------------------------------------------------------------------

MaxLen == 5

SourceBytes == {X, SP, SL, NL}

\* The rule list with the indentation rule moved behind the width-aware rules.
run_inline_rules_reordered ==
    << "ArgToPipeParams", "TrailingClosures", "ExtraTrailingClosures",
       "BlockLayoutKAndR", "PipeParamOnBraceLine", "DotChainLayout",
       "MultiLineEventsOnePerLine", "MultiLineArrayElementsPerLine",
       "PipeParamAddMissingCommas", "PipeParamDefaultParens",
       "AddSpacesAroundAssignment", "AddSpacesAroundBinaryOps",
       "AddSpacesAroundColons", "AddSpacesAfterCommas", "VarAndArgSpacing",
       "ParenBracketSpacing", "PipeHeadSpacing", "PipeBodySpacing",
       "CallIndexParenSpacing", "KeywordParenSpacing", "BlockBraceSpacing",
       "NoSpaceBeforeSemicolon", "NoSpacesAroundDot",
       "BraceAndPipesSingleLine", "InlineCommentSpacing",
       "InlineWhitespaceFormat", "ExpandLongIfTrailingClosures",
       "CompactShortIfTrailingClosures", "CompactShortCollections", "IndentStyleRule",
       "NoFinalSemicolon", "TrimTrailingWhitespaceAndEofNewline" >>

\* rules/mod.rs, run_inline: the rule list, in order.
run_inline_rules ==
    << "ArgToPipeParams", "TrailingClosures", "ExtraTrailingClosures",
       "BlockLayoutKAndR", "PipeParamOnBraceLine", "DotChainLayout",
       "MultiLineEventsOnePerLine", "MultiLineArrayElementsPerLine",
       "PipeParamAddMissingCommas", "PipeParamDefaultParens",
       "AddSpacesAroundAssignment", "AddSpacesAroundBinaryOps",
       "AddSpacesAroundColons", "AddSpacesAfterCommas", "VarAndArgSpacing",
       "ParenBracketSpacing", "PipeHeadSpacing", "PipeBodySpacing",
       "CallIndexParenSpacing", "KeywordParenSpacing", "BlockBraceSpacing",
       "NoSpaceBeforeSemicolon", "NoSpacesAroundDot",
       "BraceAndPipesSingleLine", "InlineCommentSpacing", "IndentStyleRule",
       "InlineWhitespaceFormat", "ExpandLongIfTrailingClosures",
       "CompactShortIfTrailingClosures", "CompactShortCollections",
       "NoFinalSemicolon", "TrimTrailingWhitespaceAndEofNewline" >>

\* The bytes without which a rule finds nothing to edit: every edit of the
\* rule is anchored at a token that holds one of them.
Trigger(name) ==
    CASE name = "ArgToPipeParams" -> {"{"}
      [] name = "TrailingClosures" -> {"f", "d"}
      [] name = "ExtraTrailingClosures" -> {"e"}
      [] name = "BlockLayoutKAndR" -> {"{", "}"}
      [] name = "PipeParamOnBraceLine" -> {"{"}
      [] name = "DotChainLayout" -> {"."}
      [] name = "MultiLineEventsOnePerLine" -> {"("}
      [] name = "MultiLineArrayElementsPerLine" -> {"["}
      [] name = "PipeParamAddMissingCommas" -> {"|"}
      [] name = "PipeParamDefaultParens" -> {"|"}
      [] name = "AddSpacesAroundAssignment" -> {"="}
      [] name = "AddSpacesAroundColons" -> {":"}
      [] name = "AddSpacesAfterCommas" -> {","}
      [] name = "VarAndArgSpacing" -> {"r"}
      [] name = "ParenBracketSpacing" -> {"(", "[", ")", "]"}
      [] name = "PipeHeadSpacing" -> {"{"}
      [] name = "PipeBodySpacing" -> {"{"}
      [] name = "CallIndexParenSpacing" -> {"(", "["}
      [] name = "KeywordParenSpacing" -> {"f", "e", "r", "h"}
      [] name = "BlockBraceSpacing" -> {"{"}
      [] name = "NoSpaceBeforeSemicolon" -> {";"}
      [] name = "NoSpacesAroundDot" -> {"."}
      [] name = "BraceAndPipesSingleLine" -> {"{"}
      [] name = "InlineWhitespaceFormat" -> {"="}
      [] name = "ExpandLongIfTrailingClosures" -> {"i"}
      [] name = "CompactShortIfTrailingClosures" -> {"i"}
      [] name = "CompactShortCollections" -> {"[", "("}
      [] name = "NoFinalSemicolon" -> {"}"}
      [] OTHER -> {}

Modelled ==
    {"AddSpacesAroundAssignment", "AddSpacesAroundBinaryOps",
     "AddSpacesAfterCommas", "ParenBracketSpacing", "BlockBraceSpacing",
     "NoSpaceBeforeSemicolon", "InlineCommentSpacing", "IndentStyleRule",
     "InlineWhitespaceFormat", "ExpandLongIfTrailingClosures",
     "CompactShortIfTrailingClosures", "TrimTrailingWhitespaceAndEofNewline",
     "MultiLineArrayElementsPerLine", "CallIndexParenSpacing",
     "CompactShortCollections", "DotChainLayout", "NoSpacesAroundDot",
     "BraceAndPipesSingleLine", "NoFinalSemicolon"}

\* The bytes every edit of a rule needs in the buffer, all of them.
Needs(name) ==
    CASE name = "ArgToPipeParams" -> {"{", NL, "g", ";"}
      [] name = "TrailingClosures" -> {"(", "{"}
      [] name = "ExtraTrailingClosures" -> {"(", "{"}
      [] name = "BlockLayoutKAndR" -> {"{", NL}
      [] name = "PipeParamOnBraceLine" -> {"{", "|", NL}
      [] name = "MultiLineEventsOnePerLine" -> {"(", ":"}
      [] name = "PipeHeadSpacing" -> {"{", "|"}
      [] name = "PipeBodySpacing" -> {"{", "|"}
      [] name = "KeywordParenSpacing" -> {"("}
      [] OTHER -> {}

\* The bytes that take a buffer out of what the model of a rule covers.
Beyond(name) ==
    CASE name = "BraceAndPipesSingleLine" -> {"|"}
      [] OTHER -> {}

Bytes(b) == {b[k] : k \in 1..Len(b)}

\* The rule's edits are known for this buffer.
Known(name, b) ==
    \/ name \in Modelled /\ Bytes(b) \cap Beyond(name) = {}
    \/ Bytes(b) \cap Trigger(name) = {}
    \/ Needs(name) \ Bytes(b) # {}

\* The edits rule.run(cx) collects on buffer b with tree tr.
RuleEdits(name, b, tr) ==
    CASE name = "AddSpacesAroundAssignment" -> AddSpacesAroundAssignment(b, tr)
      [] name = "AddSpacesAroundBinaryOps" -> AddSpacesAroundBinaryOps(b, tr)
      [] name = "AddSpacesAfterCommas" -> AddSpacesAfterCommas(b, tr)
      [] name = "ParenBracketSpacing" -> ParenBracketSpacing(b)
      [] name = "BlockBraceSpacing" -> BlockBraceSpacing(b)
      [] name = "NoSpaceBeforeSemicolon" -> NoSpaceBeforeSemicolon(b, tr)
      [] name = "InlineWhitespaceFormat" -> InlineWhitespaceFormat(b)
      [] name = "ExpandLongIfTrailingClosures" -> ExpandLongIfTrailingClosures(b)
      [] name = "CompactShortIfTrailingClosures" ->
             CompactShortIfTrailingClosures(b)
      [] name = "MultiLineArrayElementsPerLine" ->
             MultiLineArrayElementsPerLine(b, tr)
      [] name = "CallIndexParenSpacing" -> CallIndexParenSpacing(b)
      [] name = "CompactShortCollections" -> CompactShortCollections(b)
      [] name = "DotChainLayout" -> DotChainLayout(b)
      [] name = "NoSpacesAroundDot" -> NoSpacesAroundDot(b, tr)
      [] name = "BraceAndPipesSingleLine" -> BraceAndPipesSingleLine(b, tr)
      [] name = "NoFinalSemicolon" -> NoFinalSemicolon(b, tr)
      [] name = "InlineCommentSpacing" -> InlineCommentSpacing(b)
      [] name = "IndentStyleRule" -> IndentStyleRule(b)
      [] name = "TrimTrailingWhitespaceAndEofNewline" ->
             TrimTrailingWhitespaceAndEofNewline(b)
      [] OTHER -> <<>>

\* The code tokens of b: "id" for a run of identifier bytes, "/" for a
\* division sign; comments and white space yield none.
RECURSIVE CodeTokens(_, _, _)
CodeTokens(b, i, acc) ==
    IF i >= Len(b) THEN acc
    ELSE IF Lex(b)[i + 1] # "code" \/ At(b, i) \in {SP, TAB, NL}
    THEN CodeTokens(b, i + 1, acc)
    ELSE IF At(b, i) = X
    THEN (IF i > 0 /\ At(b, i - 1) = X
          THEN CodeTokens(b, i + 1, acc)
          ELSE CodeTokens(b, i + 1, Append(acc, "id")))
    ELSE CodeTokens(b, i + 1, Append(acc, At(b, i)))

\* b is a program of the grammar: nothing, or one expression
\* id (/ id)* with comments anywhere.
ValidSource(b) ==
    LET toks == CodeTokens(b, 0, <<>>)
    IN \/ toks = <<>>
       \/ /\ Len(toks) % 2 = 1
          /\ \A k \in 1..Len(toks) :
                 toks[k] = IF k % 2 = 1 THEN "id" ELSE SL

Init ==
    /\ text \in {b \in SeqsUpTo(SourceBytes, MaxLen) : ValidSource(b)}
    /\ tree = NoTree
    /\ errs = <<>>
    /\ pc = 0
    /\ result = "idle"
    /\ ran = <<>>
    /\ pre = text
    /\ batch = <<>>
    /\ pass = 1
    /\ out1 = NoOutput
    /\ input = text
    /\ phase = "inline"
    /\ scan = Idle

\* Every phase runs the pipeline.
PhaseStartAlways(ph) == 1

\* lib.rs, format_source_with_indent, match phase: the rule the call starts
\* at.  run_pre and run_post return Ok(()) at once, "all" runs the three in
\* turn, and any other phase name runs nothing.
PhaseStart(ph) ==
    IF ph \in {"inline", "all"} THEN 1 ELSE Len(run_inline_rules) + 1

\* Ctx::new with the parser's failure swallowed: the rules run on no tree.
NewCtxUnchecked ==
    /\ result = "idle"
    /\ \E parsed \in BOOLEAN :
           /\ tree' = IF parsed THEN text ELSE tree
           /\ errs' = IF parsed THEN ErrorRange(text) ELSE errs
           /\ result' = "running"
           /\ pc' = PhaseStart(phase)
    /\ UNCHANGED <<text, ran, pre, batch, pass, out1, input, phase, scan>>

\* lib.rs, format_source_with_indent: Ctx::new parses the source;
\* "parse failed" is returned when the parser yields no tree.
NewCtx ==
    /\ result = "idle"
    /\ \E parsed \in BOOLEAN :
           IF parsed
           THEN /\ tree' = text
                /\ errs' = ErrorRange(text)
                /\ result' = "running"
                /\ pc' = PhaseStart(phase)
           ELSE /\ result' = "err"
                /\ UNCHANGED <<tree, errs, pc>>
    /\ UNCHANGED <<text, ran, pre, batch, pass, out1, input, phase, scan>>

\* rules/mod.rs, run_inline: for r in rules { let _ = r.run(cx)?; }
\* one iteration.
RunRule ==
    /\ result = "running"
    /\ pc \in 1..Len(run_inline_rules)
    /\ Known(run_inline_rules[pc], text)
    /\ ran' = Append(ran, run_inline_rules[pc])
    /\ \E parsed \in BOOLEAN :
           ApplyEdits(RuleEdits(run_inline_rules[pc], text, tree),
                      parsed, "running")
    /\ pc' = IF result' = "running" THEN pc + 1 ELSE pc
    /\ UNCHANGED <<pass, out1, input, phase, scan>>

\* lib.rs, format_source_with_indent: Ok(cx.to_string()) after the last rule.
ReturnOk ==
    /\ result = "running"
    /\ pc = Len(run_inline_rules) + 1
    /\ result' = "ok"
    /\ out1' = IF pass = 1 THEN text ELSE out1
    /\ UNCHANGED <<text, tree, errs, pc, ran, pre, batch, pass, input, phase,
                 scan>>

\* tests/fixtures_insta.rs, formatter_is_idempotent:
\* let twice = format_source(&once).
FormatAgain ==
    /\ result = "ok"
    /\ pass = 1
    /\ pass' = 2
    /\ result' = "idle"
    /\ pc' = 0
    /\ ran' = <<>>
    /\ tree' = NoTree
    /\ errs' = <<>>
    /\ pre' = text
    /\ batch' = <<>>
    /\ input' = text
    /\ UNCHANGED <<text, out1, phase, scan>>

Next == NewCtx \/ RunRule \/ ReturnOk \/ FormatAgain

Spec == Init /\ [][Next]_vars

\* C1: formatting the output of the formatter returns it unchanged.
C1_Idempotent == (pass = 2 /\ result = "ok") => text = out1

C8_ErrorReturnsNoText ==
    /\ [](result = "ok" => (ran = run_inline_rules /\ tree = text))
    /\ []((pass = 1 /\ result # "ok") => out1 = NoOutput)
    /\ [][result = "err" => UNCHANGED vars]_vars

C8_Witness ==
    /\ result = "err"
    /\ ran # <<>>
    /\ text # pre
    /\ out1 = NoOutput

\* The groups of the ordering contract.
Structural ==
    {"ArgToPipeParams", "TrailingClosures", "ExtraTrailingClosures",
     "BlockLayoutKAndR", "PipeParamOnBraceLine", "DotChainLayout",
     "PipeParamAddMissingCommas"}

LocalSpacing ==
    {"AddSpacesAroundAssignment", "AddSpacesAroundBinaryOps",
     "AddSpacesAroundColons", "AddSpacesAfterCommas", "VarAndArgSpacing",
     "ParenBracketSpacing", "PipeHeadSpacing", "PipeBodySpacing",
     "CallIndexParenSpacing", "KeywordParenSpacing", "BlockBraceSpacing",
     "NoSpaceBeforeSemicolon", "NoSpacesAroundDot",
     "BraceAndPipesSingleLine", "InlineCommentSpacing"}

IndentAndInline == {"IndentStyleRule", "InlineWhitespaceFormat"}

WidthAware ==
    {"ExpandLongIfTrailingClosures", "CompactShortIfTrailingClosures",
     "CompactShortCollections"}

ContractRules ==
    Structural \cup {"PipeParamDefaultParens"} \cup LocalSpacing
        \cup IndentAndInline \cup WidthAware
        \cup {"NoFinalSemicolon", "TrimTrailingWhitespaceAndEofNewline"}

\* The place the ordering contract gives a rule; 0 for a rule it leaves free.
Phase(name) ==
    CASE name \in Structural -> 1
      [] name = "PipeParamDefaultParens" -> 2
      [] name \in LocalSpacing -> 3
      [] name \in IndentAndInline -> 4
      [] name \in WidthAware -> 5
      [] name = "NoFinalSemicolon" -> 6
      [] name = "TrimTrailingWhitespaceAndEofNewline" -> 7
      [] OTHER -> 0

\* C10: the rules run once each in one fixed order: structural rewrites,
\* then PipeParamDefaultParens, then the local spacing rules, then
\* IndentStyleRule and InlineWhitespaceFormat, then the width-aware rules,
\* then NoFinalSemicolon and TrimTrailingWhitespaceAndEofNewline last.
C10_OrderingContract ==
    /\ \A i, j \in 1..Len(ran) :
           i < j => /\ ran[i] # ran[j]
                    /\ \/ Phase(ran[i]) = 0
                       \/ Phase(ran[j]) = 0
                       \/ Phase(ran[i]) <= Phase(ran[j])
    /\ result = "ok" =>
           /\ ContractRules \subseteq {ran[i] : i \in 1..Len(ran)}
           /\ Phase(ran[Len(ran) - 1]) = 6
           /\ Phase(ran[Len(ran)]) = 7

C10_Witness ==
    /\ result = "ok"
    /\ pass = 2
    /\ Len(ran) = Len(run_inline_rules)

\* ---------------------------------------------------------------------------
\* SpecPair: two different local spacing rules, one after the other, on an
\* arbitrary buffer.
\* ---------------------------------------------------------------------------

MaxPairLen == 4

PairBytes == {X, SP, "(", "{", "=", SL}

InitPair ==
    /\ text \in SeqsUpTo(PairBytes, MaxPairLen)
    /\ tree = text
    /\ errs = <<>>
    /\ pc = 0
    /\ result = "idle"
    /\ ran = <<>>
    /\ pre = text
    /\ batch = <<>>
    /\ pass = 1
    /\ out1 = NoOutput
    /\ input = text
    /\ phase = "inline"
    /\ scan = Idle

\* The edits a local spacing rule collects on buffer b with tree tr.
LocalEdits(name, b, tr) ==
    CASE name = "ParenBracketSpacing" -> ParenBracketSpacing(b)
      [] name = "BlockBraceSpacing" -> BlockBraceSpacing(b)
      [] name = "AddSpacesAroundAssignment" -> AddSpacesAroundAssignment(b, tr)
      [] name = "AddSpacesAroundBinaryOps" -> AddSpacesAroundBinaryOps(b, tr)
      [] OTHER -> <<>>

\* rule.run(cx) as the first or the second rule of the pair.
PairRun(name) ==
    /\ result \in {"idle", "ok"}
    /\ \A k \in 1..Len(ran) : ran[k] # name
    /\ ran' = Append(ran, name)
    /\ \E parsed \in BOOLEAN :
           ApplyEdits(LocalEdits(name, text, tree), parsed, "ok")
    /\ UNCHANGED <<pc, pass, out1, input, phase, scan>>

PairParenBracketSpacing ==
    /\ Len(ran) < 2
    /\ PairRun("ParenBracketSpacing")

PairBlockBraceSpacing ==
    /\ Len(ran) < 2
    /\ PairRun("BlockBraceSpacing")

PairAddSpacesAroundAssignment ==
    /\ Len(ran) < 2
    /\ PairRun("AddSpacesAroundAssignment")

PairAddSpacesAroundBinaryOps ==
    /\ Len(ran) < 2
    /\ PairRun("AddSpacesAroundBinaryOps")

NextPair ==
    \/ PairParenBracketSpacing
    \/ PairBlockBraceSpacing
    \/ PairAddSpacesAroundAssignment
    \/ PairAddSpacesAroundBinaryOps

SpecPair == InitPair /\ [][NextPair]_vars

\* The buffer after rule `name` ran on t (<<"panic">> if the splice panics).
After(name, t) ==
    LET r == apply_edits(t, LocalEdits(name, t, t))
    IN IF r.ok THEN r.text ELSE <<"panic">>

\* C11: two local spacing rules commute: after A then B the text is the one
\* that B then A yields on the same input.
C11_LocalRulesCommute ==
    (result = "ok" /\ Len(ran) = 2) =>
        text = After(ran[1], After(ran[2], input))

\* ---------------------------------------------------------------------------
\* SpecIf: the two width-aware if rules, in pipeline order, on a buffer that
\* holds one `if (cond) {a} {b}` construct.
\* ---------------------------------------------------------------------------

IfBodyLens == {1, 32, 33}

IfLayouts == {"single", "split", "expanded"}

IfPads == {0, 1, 6}

\* One construct: cond is "x", the bodies are runs of "x"; pad is the number
\* of spaces before the first block of the single-line layout.
IfText(layout, a, b, semi, pad, ind) ==
    LET A == Repeat(X, a)
        B == Repeat(X, b)
        I == Repeat(SP, ind)
        tail == IF semi THEN <<"}", ";">> ELSE <<"}">>
    IN CASE layout = "single" ->
              I \o <<"i", "f", SP, "(", X, ")">> \o Repeat(SP, pad) \o <<"{">>
                \o A \o <<"}", SP, "{">> \o B \o tail
         [] layout = "split" ->
              I \o <<"i", "f", SP, "(", X, ")", NL>> \o I \o <<"{">> \o A
                \o <<"}", NL>> \o I \o <<"{">> \o B \o tail
         [] OTHER ->
              I \o <<"i", "f", SP, "(", X, ")", SP, "{", NL>>
                \o I \o <<SP, SP, SP, SP>> \o A \o <<NL>>
                \o I \o <<"}", SP, "{", NL>>
                \o I \o <<SP, SP, SP, SP>> \o B \o <<NL>>
                \o I \o tail

InitIf ==
    /\ \E layout \in IfLayouts, a \in IfBodyLens, b \in IfBodyLens,
          semi \in BOOLEAN, pad \in IfPads, ind \in {0, 1} :
           text = IfText(layout, a, b, semi, IF layout = "single" THEN pad ELSE 0, ind)
    /\ tree = text
    /\ errs = <<>>
    /\ pc = 0
    /\ result = "idle"
    /\ ran = <<>>
    /\ pre = text
    /\ batch = <<>>
    /\ pass = 1
    /\ out1 = NoOutput
    /\ input = text
    /\ phase = "inline"
    /\ scan = Idle

\* rule.run(cx) of one of the two rules.
IfRun(name, edits) ==
    /\ ran' = Append(ran, name)
    /\ \E parsed \in BOOLEAN : ApplyEdits(edits, parsed, "ok")
    /\ UNCHANGED <<pc, pass, out1, input, phase, scan>>

RunExpandLongIfTrailingClosures ==
    /\ result = "idle" /\ ran = <<>>
    /\ IfRun("ExpandLongIfTrailingClosures", ExpandLongIfTrailingClosures(text))

RunCompactShortIfTrailingClosures ==
    /\ result = "ok" /\ ran = <<"ExpandLongIfTrailingClosures">>
    /\ IfRun("CompactShortIfTrailingClosures", CompactShortIfTrailingClosures(text))

NextIf == RunExpandLongIfTrailingClosures \/ RunCompactShortIfTrailingClosures

SpecIf == InitIf /\ [][NextIf]_vars

\* Length of the fully collapsed rendering "if (c) { a } { b }" of a
\* construct whose cond and bodies hold no blanks.
CollapsedLen(b) == Cardinality({k \in 1..Len(b) : b[k] \notin trim_ws}) + 7

IfBothRan == result = "ok" /\ Len(ran) = 2

\* C12: after the expander and the compactor, a multi-line construct whose
\* collapsed rendering fits in 80 columns is on one line, a single-line
\* construct longer than 80 columns is on several lines, and every other
\* construct is unchanged.
C12_ThreeWayWidthDecision ==
    IfBothRan =>
        IF HasNewline(input, 0, Len(input)) /\ CollapsedLen(input) <= MAX_LINE_WIDTH
        THEN ~HasNewline(text, 0, Len(text))
        ELSE IF ~HasNewline(input, 0, Len(input)) /\ Len(input) > MAX_LINE_WIDTH
        THEN HasNewline(text, 0, Len(text))
        ELSE text = input

\* ---------------------------------------------------------------------------
\* SpecStmt: format_source(src, "inline") on a source of a few statements,
\* one space between two statements.
\* ---------------------------------------------------------------------------

MaxStmts == 3

\* The statements of tests/rule_assignment.rs.
StmtForms ==
    {<<"x", "=", "1", ";">>,
     <<"y", SP, "=", "2", ";">>,
     <<"z", SP, "=", SP, "1", "+", "2", ";">>,
     <<"a", "=", "=", "b", ";">>,
     <<"c", "<", "=", "d", ";">>,
     <<"e", ">", "=", "f", ";">>,
     <<"g", "!", "=", "h", ";">>}

RECURSIVE JoinStmts(_)
JoinStmts(ss) ==
    IF ss = <<>> THEN <<>>
    ELSE IF Len(ss) = 1 THEN ss[1]
    ELSE ss[1] \o <<SP>> \o JoinStmts(Tail(ss))

InitStmt ==
    /\ \E n \in 1..MaxStmts : \E ss \in [1..n -> StmtForms] : text = JoinStmts(ss)
    /\ tree = NoTree
    /\ errs = <<>>
    /\ pc = 0
    /\ result = "idle"
    /\ ran = <<>>
    /\ pre = text
    /\ batch = <<>>
    /\ pass = 1
    /\ out1 = NoOutput
    /\ input = text
    /\ phase = "inline"
    /\ scan = Idle

NextStmt == NewCtx \/ RunRule \/ ReturnOk

SpecStmt == InitStmt /\ [][NextStmt]_vars

\* The assignment signs of b: "=" with no = < > ! before it and no = after.
AssignmentSigns(b) ==
    {i \in 0..(Len(b) - 1) : At(b, i) = "=" /\ is_assignment_eq(b, i)}

\* t is b with exactly one space on each side of every assignment sign and
\* no other change.
RECURSIVE SpacedAssignments(_, _)
SpacedAssignments(b, i) ==
    IF i >= Len(b) THEN <<>>
    ELSE IF i \in AssignmentSigns(b)
    THEN LET r == FwdWhile(b, i + 1, Len(b), is_space)
         IN <<SP, "=", SP>> \o SpacedAssignments(b, r)
    ELSE IF At(b, i) \in is_space
            /\ FwdWhile(b, i, Len(b), is_space) \in AssignmentSigns(b)
    THEN SpacedAssignments(b, FwdWhile(b, i, Len(b), is_space))
    ELSE <<At(b, i)>> \o SpacedAssignments(b, i + 1)

\* t is b, or b and the newline the last rule of the pipeline appends.
UpToEofNewline(t, b) == t = b \/ t = b \o <<NL>>

\* C13: inline formatting of assignment statements returns the source with
\* exactly one space on each side of every assignment sign and nothing else
\* changed (the final newline apart): "x=1; y =2; z = 1+2;" becomes
\* "x = 1; y = 2; z = 1+2;".
C13_AssignmentSpacingOnly ==
    (result = "ok" /\ AssignmentSigns(input) # {}
        /\ \A i \in 0..(Len(input) - 1) :
               At(input, i) = "=" => i \in AssignmentSigns(input))
        => UpToEofNewline(text, SpacedAssignments(input, 0))

\* C14: inline formatting leaves the bytes around ==, !=, <= and >= as they
\* are: a source whose only operators are these compounds is returned
\* unchanged (the final newline apart).
C14_ComparisonsUntouched ==
    (result = "ok" /\ AssignmentSigns(input) = {}
        /\ \A i \in 0..(Len(input) - 1) : At(input, i) # "+")
        => UpToEofNewline(text, input)

----------------------------------------------------------------------------
(* Comma lists through the inline pipeline *)

MaxElems == 3

\* What stands between two elements of a list.
CommaSeps ==
    {<<",">>, <<SP, ",">>, <<",", SP>>, <<",", SP, SP>>, <<TAB, ",">>,
     <<",", NL>>, <<",", NL, SP>>}

RECURSIVE JoinElems(_, _)
JoinElems(n, seps) ==
    IF n = 1 THEN <<X>> ELSE JoinElems(n - 1, seps) \o seps[n - 1] \o <<X>>

\* A list of n elements x, bare or in brackets, with a trailing comma or not.
CommaText(n, seps, bracket, trailing) ==
    IF bracket
    THEN <<"[">> \o JoinElems(n, seps)
             \o (IF trailing THEN <<",">> ELSE <<>>) \o <<"]">>
    ELSE JoinElems(n, seps)

InitComma ==
    /\ \E n \in 1..MaxElems : \E seps \in [1..(n - 1) -> CommaSeps] :
         \E bracket, trailing \in BOOLEAN :
           text = CommaText(n, seps, bracket, trailing)
    /\ tree = NoTree
    /\ errs = <<>>
    /\ pc = 0
    /\ result = "idle"
    /\ ran = <<>>
    /\ pre = text
    /\ batch = <<>>
    /\ pass = 1
    /\ out1 = NoOutput
    /\ input = text
    /\ phase = "inline"
    /\ scan = Idle

NextComma == NewCtx \/ RunRule \/ ReturnOk

SpecComma == InitComma /\ [][NextComma]_vars

\* The first byte after comma i that is no space or tab; Len(b) for none.
AfterComma(b, i) == FwdWhile(b, i + 1, Len(b), is_space)

\* Comma i of b is in the form of the rule.
CommaFormAt(b, i) ==
    /\ i = 0 \/ At(b, i - 1) \notin {SP, TAB}
    /\ \/ AfterComma(b, i) >= Len(b)
       \/ At(b, AfterComma(b, i)) \in {NL, ")", "]", "}"}
       \/ At(b, i + 1) = SP /\ AfterComma(b, i) = i + 2

CommaForm(b) == \A i \in TokenOffsets(b, ",") : CommaFormAt(b, i)

\* C15: after inline formatting every comma outside strings and comments has
\* no space or tab before it and exactly one space after it, unless its next
\* non-blank byte is a newline or a closing delimiter; and a text already in
\* that form is returned unchanged.
C15_CommaSpacing ==
    result = "ok" =>
        /\ CommaForm(text)
        /\ CommaForm(input) => UpToEofNewline(text, input)

----------------------------------------------------------------------------
(* Method chains through the inline pipeline *)

\* The receiver of a chain: an identifier or a string literal.
ChainHeads == {<<X>>, <<DQ, X, DQ>>}

\* A dot with the white space around it.
ChainDots ==
    {<<".">>, <<SP, ".">>, <<".", SP>>, <<SP, SP, ".", SP, SP>>,
     <<NL, ".">>, <<NL, SP, SP, ".">>, <<".", NL>>}

\* What follows a method name: nothing, an empty argument list, or a block
\* argument.
ChainArgs ==
    {<<>>, <<"(", ")">>, <<"(", "{", X, "}", ")">>,
     <<"(", "{", DQ, X, DQ, ".", X, "}", ")">>}

ChainTails == {<<>>, <<";">>}

\* head.x(args).x(args); with the second call optional.
ChainText(head, d1, a1, more, d2, a2, tail) ==
    head \o d1 \o <<X>> \o a1
         \o (IF more THEN d2 \o <<X>> \o a2 ELSE <<>>) \o tail

InitDot ==
    /\ \E head \in ChainHeads : \E d1, d2 \in ChainDots :
         \E a1 \in ChainArgs : \E a2 \in {<<>>, <<"(", "{", X, "}", ")">>} :
           \E more \in BOOLEAN : \E tail \in ChainTails :
             /\ ~more => d2 = d1 /\ a2 = <<>>
             /\ text = ChainText(head, d1, a1, more, d2, a2, tail)
    /\ tree = NoTree
    /\ errs = <<>>
    /\ pc = 0
    /\ result = "idle"
    /\ ran = <<>>
    /\ pre = text
    /\ batch = <<>>
    /\ pass = 1
    /\ out1 = NoOutput
    /\ input = text
    /\ phase = "inline"
    /\ scan = Idle

NextDot == NewCtx \/ RunRule \/ ReturnOk

SpecDot == InitDot /\ [][NextDot]_vars

\* Byte i of b is the first byte of its line that is no space or tab.
FirstNonBlank(b, i) ==
    \/ BackWhile(b, i, 0, is_space) = 0
    \/ At(b, BackWhile(b, i, 0, is_space) - 1) = NL

\* Every method-call dot of b that does not lead its line has no space or
\* tab on either side.
DotsTight(b) ==
    \A i \in MethodCallDots(b) :
        ~FirstNonBlank(b, i) =>
            /\ i = 0 \/ At(b, i - 1) \notin is_space
            /\ i + 1 >= Len(b) \/ At(b, i + 1) \notin is_space

\* The number of lines of b, a final newline ending the last line.
LineCount(b) == Cardinality({i \in 0..(Len(b) - 2) : At(b, i) = NL}) + 1

\* The bytes of the string literals of b, in order.
StringBytesFrom(b, cls) ==
    LET at == Ascending({i \in 0..(Len(b) - 1) : cls[i + 1] = "double"})
    IN [k \in 1..Len(at) |-> At(b, at[k])]

StringBytes(b) == StringBytesFrom(b, Lex(b))

\* The layout of the example: outside strings no blank is left, but for one
\* space inside each brace of a block.
RECURSIVE ChainLayoutFrom(_, _, _)
ChainLayoutFrom(b, cls, i) ==
    IF i >= Len(b) THEN <<>>
    ELSE (IF cls[i + 1] # "code" THEN <<At(b, i)>>
          ELSE IF At(b, i) \in is_space THEN <<>>
          ELSE IF At(b, i) = "{" THEN <<"{", SP>>
          ELSE IF At(b, i) = "}" THEN <<SP, "}">>
          ELSE <<At(b, i)>>)
         \o ChainLayoutFrom(b, cls, i + 1)

ChainLayout(b) == ChainLayoutFrom(b, Lex(b), 0)

\* C17: after inline formatting a method-call dot that is not the first
\* non-blank byte of its line has no space or tab on either side, no lines
\* are joined, the bytes of the string literals are unchanged, and a
\* one-line chain comes out in the layout of the example: tight dots, the
\* block argument directly after the parenthesis.
C17_DotSpacing ==
    result = "ok" =>
        /\ DotsTight(text)
        /\ LineCount(text) >= LineCount(input)
        /\ StringBytes(text) = StringBytes(input)
        /\ (\A i \in 0..(Len(input) - 1) : At(input, i) # NL)
               => UpToEofNewline(text, ChainLayout(input))

----------------------------------------------------------------------------
(* format_source under every phase name *)

MaxPhaseLen == 3

\* The phase names of the command line and one that is none of them.
Phases == {"pre", "inline", "post", "all", "none"}

InitPhase ==
    /\ text \in {b \in SeqsUpTo(SourceBytes, MaxPhaseLen) : ValidSource(b)}
    /\ tree = NoTree
    /\ errs = <<>>
    /\ pc = 0
    /\ result = "idle"
    /\ ran = <<>>
    /\ pre = text
    /\ batch = <<>>
    /\ pass = 1
    /\ out1 = NoOutput
    /\ input = text
    /\ phase \in Phases
    /\ scan = Idle

NextPhase == NewCtx \/ RunRule \/ ReturnOk

SpecPhase == InitPhase /\ [][NextPhase]_vars

\* C18: for phase "pre" and for phase "post" format_source returns the input
\* byte for byte, for every input that parses; no rule of the pipeline runs
\* but in the inline phase, alone or as part of "all".
C18_PhaseSelector ==
    /\ (result = "ok" /\ phase \in {"pre", "post"}) => text = input
    /\ ran # <<>> => phase \in {"inline", "all"}

\* "x/x" comes back from the post phase, where the inline phase returns
\* "x / x" and a newline.
C18_Witness ==
    /\ result = "ok"
    /\ phase = "post"
    /\ input = <<X, SL, X>>
    /\ text = input

----------------------------------------------------------------------------
(* The bracket matchers of the rules *)

\* rules/extra_trailing_closures.rs, fn match_paren and fn match_brace: every
\* byte counts; -1 for None.
RECURSIVE ClosureMatch(_, _, _, _, _)
ClosureMatch(b, i, depth, op, cl) ==
    IF i >= Len(b) THEN -1
    ELSE IF At(b, i) = op THEN ClosureMatch(b, i + 1, depth + 1, op, cl)
    ELSE IF At(b, i) = cl
    THEN (IF depth - 1 = 0 THEN i ELSE ClosureMatch(b, i + 1, depth - 1, op, cl))
    ELSE ClosureMatch(b, i + 1, depth, op, cl)

closure_match_paren(b, open) == ClosureMatch(b, open, 0, "(", ")")

closure_match_brace(b, open) == ClosureMatch(b, open, 0, "{", "}")

MaxMatchLen == 4

MatchBytes == {"[", "]", "(", ")", "{", "}", DQ, X}

\* The matchers and the bracket each is called on.
Matchers ==
    {"match_delim", "multiline_arrays", "match_paren", "match_brace"}

OpenOf(kind) ==
    CASE kind = "match_paren" -> "("
      [] kind = "match_brace" -> "{"
      [] OTHER -> "["

CloseOf(kind) ==
    CASE kind = "match_paren" -> ")"
      [] kind = "match_brace" -> "}"
      [] OTHER -> "]"

\* A matcher is about to be called on an opening bracket of the code, at
\* offset scan.from, of a buffer whose strings are closed.
InitMatch ==
    /\ text \in {b \in SeqsUpTo(MatchBytes, MaxMatchLen) : WellTerminated(b)}
    /\ \E k \in Matchers : \E o \in 0..(Len(text) - 1) :
         /\ At(text, o) = OpenOf(k)
         /\ Lex(text)[o + 1] = "code"
         /\ scan = [Idle EXCEPT !.kind = k, !.from = o]
    /\ tree = text
    /\ errs = <<>>
    /\ pc = 0
    /\ result = "idle"
    /\ ran = <<>>
    /\ pre = text
    /\ batch = <<>>
    /\ pass = 1
    /\ out1 = NoOutput
    /\ input = text
    /\ phase = "inline"

\* The call returns: scan.i is the offset returned, -1 for None.
Matched(kind, close) ==
    /\ result = "idle"
    /\ scan.kind = kind
    /\ scan' = [scan EXCEPT !.i = close]
    /\ result' = "ok"
    /\ ran' = <<kind>>
    /\ UNCHANGED <<text, tree, errs, pc, pre, batch, pass, out1, input, phase>>

\* compact_collections.rs: match_delim(bytes, i, b'[', b']')
CallMatchDelim ==
    /\ scan.kind = "match_delim"
    /\ Matched("match_delim", match_delim(text, scan.from, "[", "]"))

\* multiline_arrays.rs: the loop from open + 1 at depth 1
CallArrayClose ==
    /\ scan.kind = "multiline_arrays"
    /\ Matched("multiline_arrays", ArrayClose(text, scan.from + 1, 1))

\* extra_trailing_closures.rs: match_paren(bytes, open)
CallClosureMatchParen ==
    /\ scan.kind = "match_paren"
    /\ Matched("match_paren", closure_match_paren(text, scan.from))

\* extra_trailing_closures.rs: match_brace(bytes, inner_start)
CallClosureMatchBrace ==
    /\ scan.kind = "match_brace"
    /\ Matched("match_brace", closure_match_brace(text, scan.from))

NextMatch ==
    \/ CallMatchDelim
    \/ CallArrayClose
    \/ CallClosureMatchParen
    \/ CallClosureMatchBrace

SpecMatch == InitMatch /\ [][NextMatch]_vars

\* Opening minus closing bytes of the pair op/cl in [o, j], over the bytes
\* outside strings and comments.
CodeDepth(b, cls, o, j, op, cl) ==
    Cardinality({k \in o..j : At(b, k) = op /\ cls[k + 1] = "code"})
    - Cardinality({k \in o..j : At(b, k) = cl /\ cls[k + 1] = "code"})

\* The offsets after o where that depth is zero.
Balanced(b, cls, o, op, cl) ==
    {j \in (o + 1)..(Len(b) - 1) : CodeDepth(b, cls, o, j, op, cl) = 0}

\* The first of them, -1 when the buffer ends before.
FirstBalanced(S) == IF S = {} THEN -1 ELSE CHOOSE j \in S : \A k \in S : j <= k

\* C20: a matcher called on the opening bracket at offset o returns the first
\* offset after o where the count of opening minus closing brackets of that
\* kind, over the bytes outside strings and comments, is back at zero, and
\* none if the buffer ends first; a bracket inside a string or comment does
\* not change the depth.
C20_BracketMatching ==
    (result = "ok" /\ scan.kind \in Matchers) =>
        scan.i = FirstBalanced(Balanced(text, Lex(text), scan.from,
                                        OpenOf(scan.kind), CloseOf(scan.kind)))

----------------------------------------------------------------------------
(* The rules that split a bracketed region at its commas *)

\* The members of an array: an identifier, a string holding a comma, and a
\* nested pair of each bracket kind holding a comma.
SplitMembers ==
    {<<X>>, <<DQ, X, ",", X, DQ>>, <<"(", X, ",", X, ")">>,
     <<"[", X, ",", X, "]">>, <<"{", X, ",", X, "}">>}

SplitSeps == {<<",">>, <<",", SP>>, <<",", NL>>, <<",", NL, SP>>}

\* [m1 s1 m2] or [m1 s1 m2 s2 m3], on two lines at least.
SplitText(m1, s1, m2, more, s2, m3) ==
    <<"[">> \o m1 \o s1 \o m2 \o (IF more THEN s2 \o m3 ELSE <<>>)
            \o <<NL, "]">>

InitSplit ==
    /\ \E m1, m2, m3 \in SplitMembers : \E s1, s2 \in SplitSeps :
         \E more \in BOOLEAN :
           /\ ~more => s2 = s1 /\ m3 = m1
           /\ text = SplitText(m1, s1, m2, more, s2, m3)
    /\ tree = text
    /\ errs = ErrorRange(text)
    /\ pc = 0
    /\ result = "idle"
    /\ ran = <<>>
    /\ pre = text
    /\ batch = <<>>
    /\ pass = 1
    /\ out1 = NoOutput
    /\ input = text
    /\ phase = "inline"
    /\ scan = Idle

RunMultiLineArrayElementsPerLine ==
    /\ result = "idle"
    /\ RunOnce("MultiLineArrayElementsPerLine",
               MultiLineArrayElementsPerLine(text, tree))

RunCompactShortCollections ==
    /\ result = "idle"
    /\ RunOnce("CompactShortCollections", CompactShortCollections(text))

NextSplit == RunMultiLineArrayElementsPerLine \/ RunCompactShortCollections

SpecSplit == InitSplit /\ [][NextSplit]_vars

\* Opening minus closing bytes of every bracket kind in [lo, j), over the
\* bytes outside strings and comments.
NestDepth(b, cls, lo, j) ==
    Cardinality({k \in lo..(j - 1) :
                    At(b, k) \in {"(", "[", "{"} /\ cls[k + 1] = "code"})
    - Cardinality({k \in lo..(j - 1) :
                      At(b, k) \in {")", "]", "}"} /\ cls[k + 1] = "code"})

\* The commas of the region (open, close) at its base depth and outside
\* strings and comments.
TopCommas(b, cls, open, close) ==
    {c \in (open + 1)..(close - 1) :
        /\ At(b, c) = ","
        /\ cls[c + 1] = "code"
        /\ NestDepth(b, cls, open + 1, c) = 0}

\* Every other comma of the buffer.
InnerCommas(b, cls, open, close) ==
    {c \in 0..(Len(b) - 1) : At(b, c) = ","} \ TopCommas(b, cls, open, close)

\* Edit e is made for comma c: it starts at the first byte after c that is
\* no space or tab.
EditAtComma(b, e, c) == e.start_byte = FwdWhile(b, c + 1, Len(b), is_space)

\* The members of the region, split at the commas of S, trimmed, the empty
\* ones dropped, joined by a comma and a space.
RECURSIVE MembersAt(_, _, _, _)
MembersAt(b, lo, hi, S) ==
    IF {c \in S : c >= lo} = {}
    THEN <<trim_ascii_slice(Slice(b, lo, hi))>>
    ELSE LET c == CHOOSE x \in S : x >= lo /\ \A y \in S : y >= lo => x <= y
         IN <<trim_ascii_slice(Slice(b, lo, c))>> \o MembersAt(b, c + 1, hi, S)

JoinedMembers(b, lo, hi, S) ==
    JoinCommaSpace(SelectSeq(MembersAt(b, lo, hi, S), LAMBDA p : p # <<>>))

SplitRan(name) == result = "ok" /\ ran = <<name>>

\* C21: a comma is a member boundary only at the base depth of the region
\* and outside strings and comments: MultiLineArrayElementsPerLine makes no
\* edit for a comma that is nested in a bracket or lies in a string, and
\* the line CompactShortCollections writes holds the members between the
\* top-level commas and nothing else.
C21_TopLevelSeparators ==
    /\ SplitRan("MultiLineArrayElementsPerLine") =>
           \A k \in 1..Len(batch) :
               \A c \in InnerCommas(pre, Lex(pre), 0, Len(pre) - 1) :
                   ~EditAtComma(pre, batch[k], c)
    /\ (SplitRan("CompactShortCollections") /\ batch # <<>>) =>
           text = <<"[">> \o JoinedMembers(pre, 1, Len(pre) - 1,
                                TopCommas(pre, Lex(pre), 0, Len(pre) - 1))
                          \o <<"]">>

----------------------------------------------------------------------------
(* Rules on buffers holding an opening bracket that is never closed *)

MaxOpenLen == 6

\* Strings of the buffers are closed: the brackets are what is left open.
OpenBytes == {"[", "]", ",", X, NL, DQ}

\* The construct of the split layout and what is left of it when the buffer
\* ends early.
OpenIfTexts ==
    LET full == IfText("split", 1, 1, FALSE, 0, 0)
    IN {SubSeq(full, 1, n) : n \in 4..Len(full)}

InitOpen ==
    /\ \/ \E body \in SeqsUpTo(OpenBytes, MaxOpenLen) :
             /\ WellTerminated(body)
             /\ text = <<"[">> \o body
       \/ text \in OpenIfTexts
    /\ tree = text
    /\ errs = ErrorRange(text)
    /\ pc = 0
    /\ result = "idle"
    /\ ran = <<>>
    /\ pre = text
    /\ batch = <<>>
    /\ pass = 1
    /\ out1 = NoOutput
    /\ input = text
    /\ phase = "inline"
    /\ scan = Idle

RunTryCompactAt ==
    /\ result = "idle"
    /\ RunOnce("CompactShortIfTrailingClosures",
               CompactShortIfTrailingClosures(text))

NextOpen ==
    \/ RunMultiLineArrayElementsPerLine
    \/ RunCompactShortCollections
    \/ RunTryCompactAt

SpecOpen == InitOpen /\ [][NextOpen]_vars

CloserOf(c) == IF c = "[" THEN "]" ELSE IF c = "(" THEN ")" ELSE "}"

\* The opening brackets outside strings and comments.
Openers(b, cls) ==
    {o \in 0..(Len(b) - 1) : At(b, o) \in {"[", "(", "{"} /\ cls[o + 1] = "code"}

\* The offset of the balancing closer of the opener at o, -1 when the
\* buffer ends before it.
CloserAt(b, cls, o) ==
    FirstBalanced(Balanced(b, cls, o, At(b, o), CloserOf(At(b, o))))

\* Edit e lies in a region whose opener has a balancing closer.
InClosedRegion(b, cls, e) ==
    \E o \in Openers(b, cls) :
        /\ CloserAt(b, cls, o) # -1
        /\ o <= e.start_byte
        /\ e.end_byte <= CloserAt(b, cls, o) + 1

Unterminated(b, cls) == \E o \in Openers(b, cls) : CloserAt(b, cls, o) = -1

\* The rule ran on such a buffer, and the parser answered the reparse.
OpenRan(b, cls) == ran # <<>> /\ result # "err" /\ Unterminated(b, cls)

OpenHolds(b, cls) ==
    /\ result = "ok"
    /\ ran[1] = "CompactShortIfTrailingClosures" => batch = <<>>
    /\ \A k \in 1..Len(batch) : InClosedRegion(b, cls, batch[k])

\* C22: a rule run on a buffer holding an opening bracket with no balancing
\* closer returns Ok and makes no edit for that bracket: every edit of its
\* batch lies between an opening bracket and its balancing closer, and the
\* if-rule makes no edit on a construct that is cut short.
C22_UnterminatedIsLocal == OpenRan(pre, Lex(pre)) => OpenHolds(pre, Lex(pre))

----------------------------------------------------------------------------
(* AddSpacesAroundBinaryOps on short operator expressions *)

MaxOpsLen == 4

OpsBytes == {X, SP, NL, "+", "-", "!", "*", "<", ">", ":", ","}

InitOps ==
    /\ text \in SeqsUpTo(OpsBytes, MaxOpsLen)
    /\ tree = text
    /\ errs = ErrorRange(text)
    /\ pc = 0
    /\ result = "idle"
    /\ ran = <<>>
    /\ pre = text
    /\ batch = <<>>
    /\ pass = 1
    /\ out1 = NoOutput
    /\ input = text
    /\ phase = "inline"
    /\ scan = Idle

NextOps == RunAddSpacesAroundBinaryOps

SpecOps == InitOps /\ [][NextOps]_vars

OpsRan == result = "ok" /\ ran = <<"AddSpacesAroundBinaryOps">>

\* The offsets of the operator characters of b.
OpChars(b) == {i \in 0..(Len(b) - 1) : At(b, i) \in is_ascii_op_char}

\* The bytes after which a '+', '-' or '!' is a sign and no binary operator.
UnaryContext == {"(", "[", "{", ",", ";", ":", "="} \cup is_ascii_op_char

\* b with exactly one space on each side of the operator at i: the spaces
\* and tabs next to it are replaced, a newline is left where it is.
OneSpaceEachSide(b, i) ==
    Slice(b, 0, BackWhile(b, i, 0, is_space))
        \o <<SP, At(b, i), SP>>
        \o Slice(b, FwdWhile(b, i + 1, Len(b), is_space), Len(b))

\* The buffer holds one operator character, a '+', '-' or '!' at offset i
\* with a byte other than blanks before it.
LoneSign(b, i) ==
    /\ OpChars(b) = {i}
    /\ At(b, i) \in {"+", "-", "!"}
    /\ PrevNonBlank(b, i) # -1

\* C23: a '+', '-' or '!' whose nearest preceding non-whitespace byte is an
\* opening delimiter, a comma, a semicolon, a colon, an operator character
\* or '=' is left untouched; otherwise it gets exactly one space on each
\* side, and no whitespace is added or removed across a newline.
C23_UnaryVersusBinary ==
    OpsRan =>
        \A i \in OpChars(pre) :
            LoneSign(pre, i) =>
                IF At(pre, PrevNonBlank(pre, i)) \in UnaryContext
                THEN text = pre
                ELSE text = OneSpaceEachSide(pre, i)

\* Two operator characters side by side, neither of them in a string or
\* comment, that are no operator of DOUBLE_OPS.
AdjacentOps(b, cls) ==
    {i \in 0..(Len(b) - 2) :
        /\ At(b, i) \in is_ascii_op_char
        /\ At(b, i + 1) \in is_ascii_op_char
        /\ cls[i + 1] = "code" /\ cls[i + 2] = "code"
        /\ <<At(b, i), At(b, i + 1)>> \notin DOUBLE_OPS}

\* Edit e puts bytes between offsets i and i + 1.
InsertsBetween(e, i) ==
    e.start_byte = i + 1 /\ e.end_byte = i + 1 /\ e.replacement # <<>>

\* C26: AddSpacesAroundBinaryOps inserts nothing between two adjacent
\* operator characters: an operator of several characters that is not in
\* DOUBLE_OPS (++, ->, <<, **) is still in one piece after the rule.
C26_OperatorsStayContiguous ==
    OpsRan =>
        \A i \in AdjacentOps(pre, Lex(pre)) :
            \A k \in 1..Len(batch) : ~InsertsBetween(batch[k], i)

----------------------------------------------------------------------------
(* rules/keyword_paren.rs *)

keywords ==
    <<<<"i", "f">>, <<"w", "h", "i", "l", "e">>, <<"f", "o", "r">>,
      <<"s", "w", "i", "t", "c", "h">>, <<"c", "a", "s", "e">>>>

\* kw starts at i and is a token of its own.
is_keyword_start(b, i, kw) ==
    /\ i + Len(kw) <= Len(b)
    /\ Slice(b, i, i + Len(kw)) = kw
    /\ i > 0 => ~is_ident_char(At(b, i - 1))
    /\ i + Len(kw) < Len(b) => ~is_ident_char(At(b, i + Len(kw)))

FixKeywordParenAt(b, i, l) ==
    IF l >= Len(b) \/ At(b, l) \in is_newline \/ At(b, l) # "(" THEN <<>>
    ELSE IF l = i THEN <<TextEdit(i, i, <<SP>>)>>
    ELSE IF l - i # 1 THEN <<TextEdit(i, l, <<SP>>)>>
    ELSE <<>>

fix_keyword_paren(b, start, kw_len) ==
    IF start + kw_len >= Len(b) THEN <<>>
    ELSE FixKeywordParenAt(b, start + kw_len,
                           FwdWhile(b, start + kw_len, Len(b), is_space))

\* The chain of keyword tests at offset i.  The bytes of a keyword the loop
\* jumps over are identifier bytes: none of them starts a keyword, a comment
\* or a string.
KeywordParenAt(b, i) ==
    IF \E k \in 1..Len(keywords) : is_keyword_start(b, i, keywords[k])
    THEN LET k == CHOOSE n \in 1..Len(keywords) :
                      /\ is_keyword_start(b, i, keywords[n])
                      /\ \A n2 \in 1..(n - 1) : ~is_keyword_start(b, i, keywords[n2])
         IN fix_keyword_paren(b, i, Len(keywords[k]))
    ELSE <<>>

KeywordParenOver(b, at) ==
    Concat([k \in 1..Len(at) |-> KeywordParenAt(b, at[k])])

KeywordParenSpacing(b) == KeywordParenOver(b, LexerCode(b, 0, "code", <<>>))

----------------------------------------------------------------------------
(* CallIndexParenSpacing and KeywordParenSpacing, run twice in order *)

MaxParenLen == 5

ParenBytes == {"i", "f", X, SP, TAB, "(", "[", ")", DQ}

InitParen ==
    /\ text \in SeqsUpTo(ParenBytes, MaxParenLen)
    /\ tree = text
    /\ errs = ErrorRange(text)
    /\ pc = 0
    /\ result = "idle"
    /\ ran = <<>>
    /\ pre = text
    /\ batch = <<>>
    /\ pass = 1
    /\ out1 = NoOutput
    /\ input = text
    /\ phase = "inline"
    /\ scan = Idle

RunCallIndexParenSpacing ==
    /\ result \in {"idle", "ok"} /\ Len(ran) \in {0, 2}
    /\ IfRun("CallIndexParenSpacing", CallIndexParenSpacing(text))

RunKeywordParenSpacing ==
    /\ result = "ok" /\ Len(ran) \in {1, 3}
    /\ IfRun("KeywordParenSpacing", KeywordParenSpacing(text))

NextParen == RunCallIndexParenSpacing \/ RunKeywordParenSpacing

SpecParen == InitParen /\ [][NextParen]_vars

\* The '(' and '[' of b outside strings and comments that have spaces or
\* tabs before them and, before those, a byte of the same line.
SpacedDelims(b, cls) ==
    {d \in 1..(Len(b) - 1) :
        /\ At(b, d) \in {"(", "["} /\ cls[d + 1] = "code"
        /\ At(b, d - 1) \in is_space
        /\ BackWhile(b, d, 0, is_space) > 0
        /\ At(b, BackWhile(b, d, 0, is_space) - 1) \notin is_newline}

\* The byte at p ends an identifier that is no control keyword, or is a
\* closing bracket.
CalleeEnd(b, p) ==
    \/ At(b, p) \in {")", "]", "}"}
    \/ /\ is_ident_char(At(b, p))
       /\ ~is_keyword(Slice(b, WordStart(b, p), p + 1))

\* The control keywords of b outside strings and comments that are tokens
\* of their own.
KeywordsOf(b, cls) ==
    {<<i, k>> \in (0..(Len(b) - 1)) \X (1..Len(keywords)) :
        is_keyword_start(b, i, keywords[k]) /\ cls[i + 1] = "code"}

\* Between the keyword at i and a '(' that follows it on the line there is
\* exactly one space.
OneSpaceToParen(b, i, n) ==
    LET l == FwdWhile(b, i + n, Len(b), is_space)
    IN (l < Len(b) /\ At(b, l) = "(") => Slice(b, i + n, l) = <<SP>>

CallIndexHolds(b, cls) ==
    \A d \in SpacedDelims(b, cls) :
        CalleeEnd(b, BackWhile(b, d, 0, is_space) - 1) =>
            \E k \in 1..Len(batch) :
                batch[k] = TextEdit(BackWhile(b, d, 0, is_space), d, <<>>)

KeywordHolds(b, cls) ==
    \A ik \in KeywordsOf(b, cls) : OneSpaceToParen(b, ik[1], Len(keywords[ik[2]]))

\* C24: CallIndexParenSpacing removes the spaces and tabs between a callee
\* (an identifier that is no control keyword, or a closing bracket) and a
\* '(' or '[' of the same line; after KeywordParenSpacing a control keyword
\* followed by '(' has exactly one space before it; and a second run of
\* the two rules makes no edit.
C24_CallVersusKeywordParen ==
    result = "ok" =>
        /\ Len(ran) = 1 => CallIndexHolds(pre, Lex(pre))
        /\ Len(ran) = 2 => KeywordHolds(text, Lex(text))
        /\ Len(ran) >= 3 => batch = <<>>

----------------------------------------------------------------------------
(* BraceAndPipesSingleLine on blocks without parameters *)

MaxBraceLen == 5

BraceBytes == {"{", "}", X, SP}

InitBrace ==
    /\ text \in SeqsUpTo(BraceBytes, MaxBraceLen)
    /\ tree = text
    /\ errs = ErrorRange(text)
    /\ pc = 0
    /\ result = "idle"
    /\ ran = <<>>
    /\ pre = text
    /\ batch = <<>>
    /\ pass = 1
    /\ out1 = NoOutput
    /\ input = text
    /\ phase = "inline"
    /\ scan = Idle

RunBraceAndPipesSingleLine ==
    /\ result = "idle"
    /\ RunOnce("BraceAndPipesSingleLine", BraceAndPipesSingleLine(text, tree))

NextBrace == RunBraceAndPipesSingleLine

SpecBrace == InitBrace /\ [][NextBrace]_vars

\* The bytes of b that are no whitespace, in order.
NonWhitespace(b) ==
    SelectSeq(b, LAMBDA c : c \notin (ascii_ws_not_lf \cup {NL}))

BraceRan == ran = <<"BraceAndPipesSingleLine">> /\ result # "err"

\* C25: BraceAndPipesSingleLine changes whitespace only: its edits apply,
\* and the bytes of the buffer that are no whitespace are the same, in the
\* same order, after the rule as before, also for a block whose body is
\* empty or blank.
C25_BracesWhitespaceOnly ==
    BraceRan => result = "ok" /\ NonWhitespace(text) = NonWhitespace(pre)

----------------------------------------------------------------------------
(* rules/arg_to_pipe.rs *)

\* The offsets at which a line starts: 0, and the byte after every newline
\* that is not the last byte.
line_starts(b) ==
    IF Len(b) = 0 THEN <<>>
    ELSE Ascending({0} \cup {i + 1 : i \in {k \in 0..(Len(b) - 2) : At(b, k) = NL}})

is_line_comment(b, lo, hi) ==
    LET i == FwdWhile(b, lo, hi, is_space)
    IN i + 1 < hi /\ At(b, i) = SL /\ At(b, i + 1) = SL

\* The offset of the first ';' of [lo, hi), -1 when there is none.
FirstSemicolon(b, lo, hi) ==
    IF \E j \in lo..(hi - 1) : At(b, j) = ";"
    THEN CHOOSE j \in lo..(hi - 1) :
             At(b, j) = ";" /\ \A k \in lo..(j - 1) : At(b, k) # ";"
    ELSE -1

\* str::trim: the white space of both ends; VT stands for U+000B.
str_trim(s) ==
    LET ws == trim_ws \cup {"VT"}
        start == FwdWhile(s, 0, Len(s), ws)
    IN Slice(s, start, BackWhile(s, Len(s), start, ws))

EndWithNewline(b, e) == IF e < Len(b) /\ At(b, e) = NL THEN e + 1 ELSE e

\* The two edits of a pair of lines: the header line gets the parameters
\* between pipes, the arg line is deleted up to and with its newline.
ArgToPipeEdits(b, l1_start, l1_end, last, l2_start, l2_end, arg_trim) ==
    <<TextEdit(l1_start, EndWithNewline(b, l1_end),
               Slice(b, l1_start, last + 1) \o <<SP, "|">> \o arg_trim \o <<"|", NL>>),
      TextEdit(l2_start, EndWithNewline(b, l2_end), <<>>)>>

\* From "locate first ';' on the arg line" on; i2 is the offset of "arg".
ArgToPipeNames(b, l1_start, l1_end, last, l2_start, l2_end, i2, semi) ==
    IF semi = -1 THEN <<>>
    ELSE IF FwdWhile(b, i2 + 3, semi, is_space) >= semi THEN <<>>
    ELSE IF str_trim(Slice(b, FwdWhile(b, i2 + 3, semi, is_space), semi)) = <<>>
    THEN <<>>
    ELSE ArgToPipeEdits(b, l1_start, l1_end, last, l2_start, l2_end,
             str_trim(Slice(b, FwdWhile(b, i2 + 3, semi, is_space), semi)))

\* The candidate arg line [l2_start, l2_end); i2 is its first byte that is
\* no space or tab.
ArgToPipeLine2(b, l1_start, l1_end, last, l2_start, l2_end, i2) ==
    IF is_line_comment(b, l2_start, l2_end) THEN <<>>
    ELSE IF i2 + 3 > l2_end THEN <<>>
    ELSE IF Slice(b, i2, i2 + 3) # <<"a", "r", "g">> THEN <<>>
    ELSE IF i2 + 3 < l2_end /\ At(b, i2 + 3) \notin is_space THEN <<>>
    ELSE ArgToPipeNames(b, l1_start, l1_end, last, l2_start, l2_end, i2,
                        FirstSemicolon(b, l2_start, l2_end))

\* The header line [l1_start, l1_end); stop is the offset after its last
\* byte that is no space or tab.
ArgToPipeLine1(b, l1_start, l1_end, stop, l2_start, l2_end) ==
    IF stop = l1_start THEN <<>>
    ELSE IF At(b, stop - 1) # "{" THEN <<>>
    ELSE ArgToPipeLine2(b, l1_start, l1_end, stop - 1, l2_start, l2_end,
                        FwdWhile(b, l2_start, l2_end, is_space))

ArgToPipePair(b, l1_start, l2_start) ==
    ArgToPipeLine1(b, l1_start, LineEnd(b, l1_start),
                   BackWhile(b, LineEnd(b, l1_start), l1_start, is_space),
                   l2_start, LineEnd(b, l2_start))

ArgToPipeOver(b, ls) ==
    Concat([idx \in 1..(Len(ls) - 1) |-> ArgToPipePair(b, ls[idx], ls[idx + 1])])

ArgToPipeParams(b) == ArgToPipeOver(b, line_starts(b))

----------------------------------------------------------------------------
(* ArgToPipeParams on a brace line followed by an arg line *)

ArgHeads == {<<>>, <<X>>, <<X, SP>>}

ArgNames == {<<X>>, <<X, ",", X>>, <<X, SP>>}

\* What follows the first ';' of the arg line: nothing, a blank, a second
\* statement, a comment.
ArgRests == {<<>>, <<SP>>, <<X, ";">>, <<SP, X, ";">>, <<SP, SL, SL, X>>}

ArgTails == {<<>>, <<NL>>, <<NL, "}">>, <<NL, X, NL, "}">>}

ArgText(head, pad, ind, names, rest, tail) ==
    head \o <<"{">> \o pad \o <<NL>> \o ind \o <<"a", "r", "g", SP>>
         \o names \o <<";">> \o rest \o tail

InitArg ==
    /\ \E head \in ArgHeads, names \in ArgNames, rest \in ArgRests,
          tail \in ArgTails, pad \in {<<>>, <<SP>>}, ind \in {<<>>, <<SP>>} :
           text = ArgText(head, pad, ind, names, rest, tail)
    /\ tree = text
    /\ errs = ErrorRange(text)
    /\ pc = 0
    /\ result = "idle"
    /\ ran = <<>>
    /\ pre = text
    /\ batch = <<>>
    /\ pass = 1
    /\ out1 = NoOutput
    /\ input = text
    /\ phase = "inline"
    /\ scan = Idle

RunArgToPipeParams ==
    /\ result = "idle"
    /\ RunOnce("ArgToPipeParams", ArgToPipeParams(text))

NextArg == RunArgToPipeParams

SpecArg == InitArg /\ [][NextArg]_vars

\* s is a run of consecutive bytes of b.
Occurs(s, b) ==
    \E k \in 0..(Len(b) - Len(s)) : Slice(b, k, k + Len(s)) = s

\* The second line of b, from the byte after its first ';' to its end,
\* without the blanks around it.
AfterFirstSemicolon(b) ==
    LET l2 == LineEnd(b, 0) + 1
    IN trim_ascii_slice(Slice(b, FirstSemicolon(b, l2, LineEnd(b, l2)) + 1,
                              LineEnd(b, l2)))

\* The names of the arg line of b, between pipes.
PipedNames(b) ==
    LET l2 == LineEnd(b, 0) + 1
        i2 == FwdWhile(b, l2, Len(b), is_space)
    IN <<"|">> \o trim_ascii_slice(Slice(b, i2 + 3,
                                         FirstSemicolon(b, l2, LineEnd(b, l2))))
              \o <<"|">>

ArgRan == result = "ok" /\ ran = <<"ArgToPipeParams">>

\* C27: ArgToPipeParams loses no code: after the rewrite the brace line
\* ends with the names between pipes, and what followed the first ';' of
\* the arg line (further statements, a trailing comment) is still in the
\* buffer.
C27_ArgLineCodeKept ==
    ArgRan =>
        /\ Occurs(<<"{", SP>> \o PipedNames(pre), Slice(text, 0, LineEnd(text, 0)))
        /\ Occurs(AfterFirstSemicolon(pre), text)

----------------------------------------------------------------------------
(* ExpandLongIfTrailingClosures on a construct with text before and after *)

\* What stands before `if` on its line: nothing, an indentation, the left
\* side of an assignment.
ExpandPrefixes == {<<>>, <<SP>>, <<X, SP, "=", SP>>}

ExpandSuffixes == {<<>>, <<NL, X>>}

InitExpand ==
    /\ \E prefix \in ExpandPrefixes, suffix \in ExpandSuffixes,
          a \in IfBodyLens, b \in IfBodyLens, semi \in BOOLEAN, pad \in IfPads :
           text = prefix \o IfText("single", a, b, semi, pad, 0) \o suffix
    /\ tree = text
    /\ errs = <<>>
    /\ pc = 0
    /\ result = "idle"
    /\ ran = <<>>
    /\ pre = text
    /\ batch = <<>>
    /\ pass = 1
    /\ out1 = NoOutput
    /\ input = text
    /\ phase = "inline"
    /\ scan = Idle

NextExpand == RunExpandLongIfTrailingClosures

SpecExpand == InitExpand /\ [][NextExpand]_vars

\* The rule ran and expanded the construct.
Expanded ==
    /\ result = "ok"
    /\ ran = <<"ExpandLongIfTrailingClosures">>
    /\ Len(batch) = 1

\* The number of spaces and tabs the first line of b starts with.
Indentation(b) == FwdWhile(b, 0, Len(b), is_space)

\* The bytes before offset lo and from offset hi on are the same in t as
\* in b.
OutsideKept(b, t, lo, hi) ==
    /\ Slice(t, 0, lo) = Slice(b, 0, lo)
    /\ Len(t) >= Len(b) - hi
    /\ Slice(t, Len(t) - (Len(b) - hi), Len(t)) = Slice(b, hi, Len(b))

\* C28: ExpandLongIfTrailingClosures leaves the bytes outside the construct
\* unchanged and adds whitespace only: the code bytes of the buffer are the
\* same after the expansion as before (text before `if` on its line occurs
\* once), and the line of `if` keeps its indentation.
C28_ExpandAddsWhitespaceOnly ==
    Expanded =>
        /\ OutsideKept(pre, text, batch[1].start_byte, batch[1].end_byte)
        /\ NonWhitespace(text) = NonWhitespace(pre)
        /\ Indentation(text) = Indentation(pre)

----------------------------------------------------------------------------
(* BraceAndPipesSingleLine after CompactShortIfTrailingClosures *)

CollapseBodyLens == {0, 1, 2}

InitCollapse ==
    /\ \E layout \in {"split", "expanded"}, a \in CollapseBodyLens,
          b \in CollapseBodyLens, semi \in BOOLEAN, ind \in {0, 1} :
           text = IfText(layout, a, b, semi, 0, ind)
    /\ tree = text
    /\ errs = <<>>
    /\ pc = 0
    /\ result = "idle"
    /\ ran = <<>>
    /\ pre = text
    /\ batch = <<>>
    /\ pass = 1
    /\ out1 = NoOutput
    /\ input = text
    /\ phase = "inline"
    /\ scan = Idle

RunBraceAndPipesOnCollapsed ==
    /\ result = "ok" /\ ran = <<"CompactShortIfTrailingClosures">>
    /\ IfRun("BraceAndPipesSingleLine", BraceAndPipesSingleLine(text, tree))

NextCollapse == RunTryCompactAt \/ RunBraceAndPipesOnCollapsed

SpecCollapse == InitCollapse /\ [][NextCollapse]_vars

\* The compactor collapsed the construct and BraceAndPipesSingleLine ran on
\* its line.
CollapsedThenBraces ==
    /\ Len(ran) = 2 /\ result # "err"
    /\ HasNewline(input, 0, Len(input))
    /\ ~HasNewline(Slice(pre, 0, Len(pre) - 1), 0, Len(pre) - 1)

\* C29: the line CompactShortIfTrailingClosures writes is already in the
\* form of BraceAndPipesSingleLine, one space after '{' and one before '}'
\* in both blocks: the rule makes no edit on it.
C29_CollapsedLineIsNormalised == CollapsedThenBraces => batch = <<>>

----------------------------------------------------------------------------
(* InlineCommentSpacing applied to its own output *)

MaxCommentLen == 5

CommentBytes == {X, SP, SL, NL, DQ}

InitComment ==
    /\ text \in SeqsUpTo(CommentBytes, MaxCommentLen)
    /\ tree = text
    /\ errs = ErrorRange(text)
    /\ pc = 0
    /\ result = "idle"
    /\ ran = <<>>
    /\ pre = text
    /\ batch = <<>>
    /\ pass = 1
    /\ out1 = NoOutput
    /\ input = text
    /\ phase = "inline"
    /\ scan = Idle

RunInlineCommentSpacingAgain ==
    /\ result = "ok" /\ ran = <<"InlineCommentSpacing">>
    /\ IfRun("InlineCommentSpacing", InlineCommentSpacing(text))

NextComment == RunInlineCommentSpacing \/ RunInlineCommentSpacingAgain

SpecComment == InitComment /\ [][NextComment]_vars

CommentRanTwice == Len(ran) = 2 /\ result # "err"

\* C30: InlineCommentSpacing is idempotent: run on its own output it leaves
\* the text as it is, also when the text of a comment begins with or holds
\* "//".
C30_CommentSpacingIdempotent ==
    CommentRanTwice => result = "ok" /\ text = pre

====
